---- MODULE Spec2Model ----
(***************************************************************************)
(* A model of the decompiler core: the work set, the fact database, the   *)
(* PowerPC instruction decoder, the discovery pass, the basic-block       *)
(* builder, the hash-consed expression context, the symbolic machine      *)
(* state and the three expression passes.                                 *)
(*                                                                         *)
(* A u32 is the pair <<hi, lo>> of its 16-bit halves, so that every       *)
(* 32-bit value (addresses above 0x7fffffff included) is exact.           *)
(***************************************************************************)
EXTENDS Integers, Sequences, FiniteSets, TLC

VARIABLES
    facts_by_addr,      \* FactDatabase: addr -> (kind -> fact)
    facts_by_type_id,   \* FactDatabase: kind -> set of addr
    last_call,          \* the FactDatabase call that produced this state
    calls,              \* number of FactDatabase calls made so far
    image,              \* dol::Reader: mapped address -> 32-bit word
    entry_point,        \* analyze: entry_point
    overflow_checks,    \* the build panics on integer overflow (else it wraps)
    pc,                 \* the position in analyze
    addrs_to_scan,      \* analyze: the WorkSet of addresses to scan
    scan_addr,          \* scan_and_close_addrs: addr
    fetched,            \* address -> number of times it was read and parsed
    scan_starts,        \* the addresses that peek has yielded for a scan to start from
    blocks_to_scan,     \* build_basic_blocks: the WorkSet addrs_to_scan
    builders_by_addr,   \* build_basic_blocks: builders_by_addr
    ctx,                \* symbolic::Context
    ctx_call,           \* the Context constructor called last and what it returned
    work_set,           \* a WorkSet exercised on its own
    ws_call,            \* the WorkSet method called last and what it returned
    loop,               \* the worklist loop: its style and its successor function
    loop_pc,            \* the position in the worklist loop
    loop_item,          \* the item the worklist loop holds
    handed,             \* item -> number of times peek or pop handed it out
    basic_block_addrs,  \* build_expressions: basic_block_addrs
    blocks_done,        \* build_expressions: basic blocks the first pass has executed
    next_variable_number, \* NumberedContext: next_variable_number
    exprs_to_visit,     \* build_expressions: the WorkSet exprs_to_visit
    popped,             \* build_expressions: the expression the second pass popped last
    machine,            \* a MachineState exercised on its own, with its Context
    machine_call,       \* the MachineState method called last and what it returned
    machine_log         \* per register: the value last applied, the value last read

----------------------------------------------------------------------------
(* u32 arithmetic on <<hi, lo>> pairs                                      *)

Half == 65536

U32(hi, lo) == <<hi, lo>>

Hi(x) == x[1]

Lo(x) == x[2]

\* u32::wrapping_add
WrappingAdd(a, b) ==
    LET lo == Lo(a) + Lo(b)
        hi == Hi(a) + Hi(b) + (lo \div Half)
    IN  U32(hi % Half, lo % Half)

\* unsigned comparison a < b
LessU32(a, b) == Hi(a) < Hi(b) \/ (Hi(a) = Hi(b) /\ Lo(a) < Lo(b))

U32Max == U32(65535, 65535)

Four == U32(0, 4)

\* a + 4 overflows a u32
Add4Overflows(a) == Hi(a) = 65535 /\ Lo(a) >= 65532

\* the least element of a non-empty set of u32 (BTreeSet / sorted order)
MinU32(S) == CHOOSE x \in S : \A y \in S : x = y \/ LessU32(x, y)

RECURSIVE SortedU32(_)
\* the ascending sequence of the elements of a set of u32
SortedU32(S) ==
    IF S = {} THEN <<>>
    ELSE LET m == MinU32(S) IN <<m>> \o SortedU32(S \ {m})

\* the set of elements of a sequence
Range(s) == {s[i] : i \in DOMAIN s}

\* Option<T>: None is the empty sequence, Some(v) is <<v>>
None == <<>>

Some(v) == <<v>>

EmptyMap == [x \in {} |-> 0]

\* BTreeMap::insert, HashMap::insert
MapInsert(m, k, v) == [x \in DOMAIN m \cup {k} |-> IF x = k THEN v ELSE m[x]]

----------------------------------------------------------------------------
(* WorkSet<T>: a record [known, open] of two sets                          *)

WorkSetNew == [known |-> {}, open |-> {}]

\* WorkSet::insert without its check of the known set: a closed item is
\* opened again
WorkSetInsert_Reopens(ws, item) ==
    [known |-> ws.known \cup {item}, open |-> ws.open \cup {item}]

\* WorkSet::insert
WorkSetInsert(ws, item) ==
    IF item \notin ws.known
    THEN [known |-> ws.known \cup {item}, open |-> ws.open \cup {item}]
    ELSE ws

\* WorkSet::close without its known.insert: an unknown item is not closed
WorkSetClose_OpenOnly(ws, item) ==
    [ws |-> [known |-> ws.known, open |-> ws.open \ {item}], ret |-> item \in ws.open]

\* WorkSet::close: the new work set and the returned bool
WorkSetClose(ws, item) ==
    IF item \in ws.open
    THEN [ws |-> [known |-> ws.known, open |-> ws.open \ {item}], ret |-> TRUE]
    ELSE [ws |-> [known |-> ws.known \cup {item}, open |-> ws.open],
          ret |-> item \notin ws.known]

\* what self.open.iter().next() can yield: any open item (a HashSet has no
\* order), or nothing
WorkSetPeek(ws) == IF ws.open = {} THEN {None} ELSE {Some(item) : item \in ws.open}

\* WorkSet::pop that removes the item from the known set as well
WorkSetPop_Forgets(ws, item) == [known |-> ws.known \ {item}, open |-> ws.open \ {item}]

\* WorkSet::pop of the item the open set's iterator yields first
WorkSetPop(ws, item) == [known |-> ws.known, open |-> ws.open \ {item}]

\* Extend::extend that stops after the first item
WorkSetExtend_FirstOnly(ws, items) ==
    IF items = <<>> THEN ws
    ELSE IF Head(items) \notin ws.known
    THEN [known |-> ws.known \cup {Head(items)}, open |-> ws.open \cup {Head(items)}]
    ELSE ws

RECURSIVE WorkSetExtend(_, _)
\* Extend::extend: insert every item of a sequence
WorkSetExtend(ws, items) ==
    IF items = <<>> THEN ws
    ELSE WorkSetExtend(WorkSetInsert(ws, Head(items)), Tail(items))

\* WorkSet::iter_known
IterKnown(ws) == ws.known

----------------------------------------------------------------------------
(* Facts                                                                   *)

Kinds == {"BranchTarget", "Subroutine", "SubroutineCall", "BasicBlockEnd",
          "ParseError", "BasicBlock"}

\* the kinds that implement DefaultFact
DefaultKinds == {"BranchTarget", "BasicBlockEnd"}

\* DefaultFact::default
DefaultFact(kind) ==
    IF kind = "BranchTarget" THEN [sources |-> {}] ELSE [successors |-> {}]

SubroutineFact == [subroutine |-> TRUE]

\* SubroutineCallFact::new
SubroutineCallFact(target) == [target |-> target]

\* ParseErrorFact::new
ParseErrorFact(e) == [parse_error |-> e]

\* BranchTargetFact::record_source that drops the source
RecordSource_Drops(fact, source) == [sources |-> fact.sources]

\* BranchTargetFact::record_source
RecordSource(fact, source) == [sources |-> fact.sources \cup {source}]

\* BasicBlockEndFact::record_successor
RecordSuccessor(fact, successor) ==
    [successors |-> fact.successors \cup {successor}]

\* BasicBlockFact::record_write
RecordWrite(fact, write) == [fact EXCEPT !.writes = Append(@, write)]

----------------------------------------------------------------------------
(* FactDatabase: a record [facts_by_addr, facts_by_type_id]                *)

FactDatabaseNew == [facts_by_addr |-> EmptyMap, facts_by_type_id |-> EmptyMap]

\* FactDatabase::get_fact
GetFact(db, kind, addr) ==
    IF addr \in DOMAIN db.facts_by_addr
    THEN IF kind \in DOMAIN db.facts_by_addr[addr]
         THEN Some(db.facts_by_addr[addr][kind])
         ELSE None
    ELSE None

\* facts_by_type_id.entry(kind).or_default().insert(addr)
IndexInsert(index, kind, addr) ==
    [k \in DOMAIN index \cup {kind} |->
        (IF k \in DOMAIN index THEN index[k] ELSE {})
            \cup (IF k = kind THEN {addr} ELSE {})]

\* facts_by_addr.entry(addr).or_default().entry(kind).or_insert_with(f)
StoreOrInsert(store, kind, addr, fact) ==
    [a \in DOMAIN store \cup {addr} |->
        LET facts == IF a \in DOMAIN store THEN store[a] ELSE EmptyMap
        IN  IF a = addr
            THEN [k \in DOMAIN facts \cup {kind} |->
                    IF k \in DOMAIN facts THEN facts[k] ELSE fact]
            ELSE facts]

\* the write through the &mut T that fact_or_default and get_fact_mut return
StoreSet(store, kind, addr, fact) ==
    [store EXCEPT ![addr] = [@ EXCEPT ![kind] = fact]]

\* FactDatabase::fact_or_default without its insert into the secondary index
FactOrDefault_NoIndex(db, kind, addr) ==
    [facts_by_type_id |-> db.facts_by_type_id,
     facts_by_addr |-> StoreOrInsert(db.facts_by_addr, kind, addr, DefaultFact(kind))]

\* FactDatabase::fact_or_default
FactOrDefault(db, kind, addr) ==
    [facts_by_type_id |-> IndexInsert(db.facts_by_type_id, kind, addr),
     facts_by_addr |-> StoreOrInsert(db.facts_by_addr, kind, addr, DefaultFact(kind))]

\* FactDatabase::insert_fact_with with insert in place of or_insert_with: an
\* existing fact is replaced
InsertFactWith_Overwrites(db, kind, addr, fact) ==
    [facts_by_type_id |-> IndexInsert(db.facts_by_type_id, kind, addr),
     facts_by_addr |->
         StoreSet(StoreOrInsert(db.facts_by_addr, kind, addr, fact), kind, addr, fact)]

\* FactDatabase::insert_fact_with
InsertFactWith(db, kind, addr, fact) ==
    [facts_by_type_id |-> IndexInsert(db.facts_by_type_id, kind, addr),
     facts_by_addr |-> StoreOrInsert(db.facts_by_addr, kind, addr, fact)]

\* FactDatabase::get_fact_mut followed by a write through the reference
GetFactMut(db, kind, addr, fact) ==
    [facts_by_type_id |-> db.facts_by_type_id,
     facts_by_addr |-> StoreSet(db.facts_by_addr, kind, addr, fact)]

\* FactDatabase::iter_facts_with_type
IterFactsWithType(db, kind) ==
    IF kind \in DOMAIN db.facts_by_type_id THEN db.facts_by_type_id[kind] ELSE {}

\* db.fact_or_default::<BranchTargetFact>(target).record_source(source)
RecordBranchTarget(db, target, source) ==
    LET d == FactOrDefault(db, "BranchTarget", target)
    IN  GetFactMut(d, "BranchTarget", target,
            RecordSource(d.facts_by_addr[target]["BranchTarget"], source))

\* db.fact_or_default::<BasicBlockEndFact>(addr).record_successor(successor)
RecordBlockEndSuccessor(db, addr, successor) ==
    LET d == FactOrDefault(db, "BasicBlockEnd", addr)
    IN  GetFactMut(d, "BasicBlockEnd", addr,
            RecordSuccessor(d.facts_by_addr[addr]["BasicBlockEnd"], successor))

----------------------------------------------------------------------------
(* EncodedInstruction: the decoder                                         *)

\* EncodedInstruction::bits, PowerPC numbering: bit 0 is the MSB
Bits(w, from, to) ==
    LET n == to - from + 1
    IN  IF to <= 15 THEN (Hi(w) \div 2^(15 - to)) % 2^n
        ELSE IF from >= 16 THEN (Lo(w) \div 2^(31 - to)) % 2^n
        ELSE (Hi(w) % 2^(16 - from)) * 2^(to - 15) + (Lo(w) \div 2^(31 - to))

Opcode(w) == Bits(w, 0, 5)

ExtendedOpcode(w) == Bits(w, 21, 30)

\* GprOrZero::new
GprOrZero(x) == IF x = 0 THEN [zero |-> TRUE] ELSE [gpr |-> x]

\* Spr::new
SprNew(spr) ==
    CASE spr = 1 -> Some("xer")
      [] spr = 8 -> Some("lr")
      [] spr = 9 -> Some("ctr")
      [] spr \in 913..919 -> Some(<<"gqr", spr - 912>>)
      [] OTHER -> None

\* EncodedInstruction::try_spr
TrySpr(w) == SprNew(Bits(w, 16, 20) * 32 + Bits(w, 11, 15))

UnsignedImmediate(w) == Bits(w, 16, 31)

\* the bits reinterpreted as an i16
SignedImmediate(w) ==
    LET v == Bits(w, 16, 31) IN IF v >= 32768 THEN v - 65536 ELSE v

\* a small_branch_offset without the sign extension
SmallBranchOffset_ZeroExtended(w) == U32(0, Lo(w) - (Lo(w) % 4))

\* EncodedInstruction::small_branch_offset, as the u32 it is cast to
SmallBranchOffset(w) ==
    LET tmp == Lo(w) - (Lo(w) % 4)
    IN  IF (tmp \div 32768) % 2 = 1 THEN U32(65535, tmp) ELSE U32(0, tmp)

\* EncodedInstruction::large_branch_offset, as the u32 it is cast to
LargeBranchOffset(w) ==
    LET hi == Hi(w) % 1024
        lo == Lo(w) - (Lo(w) % 4)
    IN  IF (hi \div 512) % 2 = 1 THEN U32(hi + 64512, lo) ELSE U32(hi, lo)

AbsoluteAddress(w) == Bits(w, 30, 30) = 1

Link(w) == Bits(w, 31, 31) = 1

\* Bo::ctr
BoCtr(bo) ==
    CASE (bo \div 2) % 4 = 0 -> "DecrementBranchNonzero"
      [] (bo \div 2) % 4 = 1 -> "DecrementBranchZero"
      [] OTHER -> "None"

\* Bo::modify_condition
BoModifyCondition(bo, condition) ==
    CASE (bo \div 8) % 4 = 0 -> [kind |-> "BranchFalse", bit |-> condition]
      [] (bo \div 8) % 4 = 1 -> [kind |-> "BranchTrue", bit |-> condition]
      [] OTHER -> [kind |-> "BranchAlways"]

Ok(instruction) == [ok |-> TRUE, instruction |-> instruction]

Err(e) == [ok |-> FALSE, error |-> e]

IllegalEncoding == [error |-> "IllegalEncoding"]

\* the branch target: the offset added to the address, or to 0 when absolute
BranchTargetOf(w, address, offset) ==
    WrappingAdd(IF AbsoluteAddress(w) THEN U32(0, 0) ELSE address, offset)

\* EncodedInstruction::parse, opcode 19
Parse19(w) ==
    CASE ExtendedOpcode(w) = 16 ->
            IF Bits(w, 16, 20) = 0
            THEN Ok([op |-> "Bclr",
                     condition |-> BoModifyCondition(Bits(w, 6, 10), Bits(w, 11, 15)),
                     ctr |-> BoCtr(Bits(w, 6, 10)), link |-> Link(w)])
            ELSE Err(IllegalEncoding)
      [] ExtendedOpcode(w) = 193 ->
            IF Bits(w, 31, 31) = 0
            THEN Ok([op |-> "Crxor", dst |-> Bits(w, 6, 10),
                     srcs |-> <<Bits(w, 11, 15), Bits(w, 16, 20)>>])
            ELSE Err(IllegalEncoding)
      [] OTHER -> Err([error |-> "UnimplementedExtendedOpcode", opcode |-> 19,
                       extended_opcode |-> ExtendedOpcode(w)])

\* EncodedInstruction::parse, opcode 31
Parse31(w) ==
    CASE ExtendedOpcode(w) = 32 ->
            IF Bits(w, 9, 10) = 0 /\ Bits(w, 31, 31) = 0
            THEN Ok([op |-> "Cmpl", crf |-> Bits(w, 6, 8),
                     srcs |-> <<Bits(w, 11, 15), Bits(w, 16, 20)>>])
            ELSE Err(IllegalEncoding)
      [] ExtendedOpcode(w) \in {202, 714} ->
            IF Bits(w, 16, 20) = 0
            THEN Ok([op |-> "Addze", dst |-> Bits(w, 6, 10), src |-> Bits(w, 11, 15),
                     overflow_enable |-> Bits(w, 21, 21) = 1,
                     record |-> Bits(w, 31, 31) = 1])
            ELSE Err(IllegalEncoding)
      [] ExtendedOpcode(w) = 339 ->
            IF TrySpr(w) # None /\ Bits(w, 31, 31) = 0
            THEN Ok([op |-> "Mfspr", spr |-> TrySpr(w)[1], dst |-> Bits(w, 6, 10)])
            ELSE Err(IllegalEncoding)
      [] ExtendedOpcode(w) = 444 ->
            Ok([op |-> "Or", dst |-> Bits(w, 11, 15),
                srcs |-> <<Bits(w, 6, 10), Bits(w, 16, 20)>>,
                record |-> Bits(w, 31, 31) = 1])
      [] ExtendedOpcode(w) = 467 ->
            IF TrySpr(w) # None /\ Bits(w, 31, 31) = 0
            THEN Ok([op |-> "Mtspr", spr |-> TrySpr(w)[1], src |-> Bits(w, 6, 10)])
            ELSE Err(IllegalEncoding)
      [] ExtendedOpcode(w) = 824 ->
            Ok([op |-> "Srawi", dst |-> Bits(w, 11, 15), src |-> Bits(w, 6, 10),
                shift |-> Bits(w, 16, 20), record |-> Bits(w, 31, 31) = 1])
      [] OTHER -> Err([error |-> "UnimplementedExtendedOpcode", opcode |-> 31,
                       extended_opcode |-> ExtendedOpcode(w)])

\* a D-form load or store: register, signed offset, (rA|0)
DForm(w, name, reg) ==
    [op |-> name, reg |-> reg, r |-> Bits(w, 6, 10),
     offset |-> SignedImmediate(w), base |-> GprOrZero(Bits(w, 11, 15))]

\* EncodedInstruction::parse
Parse(w, address) ==
    CASE Opcode(w) = 10 ->
            IF Bits(w, 9, 10) = 0
            THEN Ok([op |-> "Cmpli", crf |-> Bits(w, 6, 8), src |-> Bits(w, 11, 15),
                     immediate |-> UnsignedImmediate(w)])
            ELSE Err(IllegalEncoding)
      [] Opcode(w) = 11 ->
            IF Bits(w, 9, 10) = 0
            THEN Ok([op |-> "Cmpi", crf |-> Bits(w, 6, 8), src |-> Bits(w, 11, 15),
                     immediate |-> SignedImmediate(w)])
            ELSE Err(IllegalEncoding)
      [] Opcode(w) = 14 ->
            Ok([op |-> "Addi", dst |-> Bits(w, 6, 10),
                src |-> GprOrZero(Bits(w, 11, 15)), immediate |-> SignedImmediate(w)])
      [] Opcode(w) = 15 ->
            Ok([op |-> "Addis", dst |-> Bits(w, 6, 10),
                src |-> GprOrZero(Bits(w, 11, 15)), immediate |-> SignedImmediate(w)])
      [] Opcode(w) = 16 ->
            Ok([op |-> "Bc",
                condition |-> BoModifyCondition(Bits(w, 6, 10), Bits(w, 11, 15)),
                ctr |-> BoCtr(Bits(w, 6, 10)), link |-> Link(w),
                absolute |-> AbsoluteAddress(w),
                target |-> BranchTargetOf(w, address, SmallBranchOffset(w))])
      [] Opcode(w) = 18 ->
            Ok([op |-> "B", link |-> Link(w), absolute |-> AbsoluteAddress(w),
                target |-> BranchTargetOf(w, address, LargeBranchOffset(w))])
      [] Opcode(w) = 19 -> Parse19(w)
      [] Opcode(w) = 21 ->
            Ok([op |-> "Rlwinm", dst |-> Bits(w, 11, 15), src |-> Bits(w, 6, 10),
                shift |-> Bits(w, 16, 20), mask_begin |-> Bits(w, 21, 25),
                mask_end |-> Bits(w, 26, 30), record |-> Bits(w, 31, 31) = 1])
      [] Opcode(w) = 31 -> Parse31(w)
      [] Opcode(w) = 32 -> Ok(DForm(w, "Lwz", "dst"))
      [] Opcode(w) = 34 -> Ok(DForm(w, "Lbz", "dst"))
      [] Opcode(w) = 36 -> Ok(DForm(w, "Stw", "src"))
      [] Opcode(w) = 37 ->
            IF Bits(w, 11, 15) # 0
            THEN Ok(DForm(w, "Stwu", "src"))
            ELSE Err(IllegalEncoding)
      [] Opcode(w) = 42 -> Ok(DForm(w, "Lha", "dst"))
      [] Opcode(w) = 47 -> Ok(DForm(w, "Stmw", "src"))
      [] OTHER -> Err([error |-> "UnimplementedOpcode", opcode |-> Opcode(w)])

\* DecodedInstruction::branch_info, None for a non-branch
BranchInfo(instruction) ==
    CASE instruction.op = "B" ->
            Some([condition |-> [kind |-> "BranchAlways"], ctr |-> "None",
                  link |-> instruction.link, target |-> Some(instruction.target)])
      [] instruction.op = "Bc" ->
            Some([condition |-> instruction.condition, ctr |-> instruction.ctr,
                  link |-> instruction.link, target |-> Some(instruction.target)])
      [] instruction.op = "Bclr" ->
            Some([condition |-> instruction.condition, ctr |-> instruction.ctr,
                  link |-> instruction.link, target |-> None])
      [] OTHER -> None

\* BranchInfo::is_conditional with && in place of ||
IsConditional_Both(branch_info) ==
    branch_info.condition.kind \in {"BranchFalse", "BranchTrue"}
        /\ branch_info.ctr \in {"DecrementBranchNonzero", "DecrementBranchZero"}

\* BranchInfo::is_conditional
IsConditional(branch_info) ==
    branch_info.condition.kind \in {"BranchFalse", "BranchTrue"}
        \/ branch_info.ctr \in {"DecrementBranchNonzero", "DecrementBranchZero"}

\* BranchInfo::diverges: unconditional and non-linking
Diverges(branch_info) == ~IsConditional(branch_info) /\ ~branch_info.link

----------------------------------------------------------------------------
(* symbolic::Context: a record [exprs_by_index, indices_by_expr,           *)
(* variable_assignments].  An ExprRef is the index of a node, from 0.      *)
(* An Expr is a record [kind, literal, variable, params].                  *)

\* u32::wrapping_mul of a 16-bit half by a 16-bit half, modulo 2^16
MulMod16(x, y) == ((((x * (y \div 256)) % Half) * 256) + (x * (y % 256))) % Half

\* u32::wrapping_mul
WrappingMul(a, b) ==
    LET p1 == Lo(a) * (Lo(b) \div 256)
        p0 == Lo(a) * (Lo(b) % 256)
        lo == ((p1 % 256) * 256) + (p0 % Half)
        hi == (p1 \div 256) + (p0 \div Half) + (lo \div Half)
                + MulMod16(Hi(a), Lo(b)) + MulMod16(Lo(a), Hi(b))
    IN  U32(hi % Half, lo % Half)

\* !literal
BitNot(a) == U32(Half - 1 - Hi(a), Half - 1 - Lo(a))

\* (lhs as i32) < (rhs as i32)
LessI32(a, b) ==
    LET negative(x) == Hi(x) >= Half \div 2
    IN  IF negative(a) # negative(b) THEN negative(a) ELSE LessU32(a, b)

NoVariable == ""

Expr(kind, literal, variable, params) ==
    [kind |-> kind, literal |-> literal, variable |-> variable, params |-> params]

\* Expr::Literal
ExprLiteral(literal) == Expr("Literal", literal, NoVariable, <<>>)

\* Expr::Variable
ExprVariable(variable) == Expr("Variable", U32(0, 0), variable, <<>>)

\* every other Expr: its kind and the ExprRefs it holds
ExprNode(kind, params) == Expr(kind, U32(0, 0), NoVariable, params)

\* Context::new
ContextNew ==
    [exprs_by_index |-> <<>>, indices_by_expr |-> EmptyMap,
     variable_assignments |-> EmptyMap]

\* Context::get_expr
GetExpr(c, index) == c.exprs_by_index[index + 1]

\* Context::insert_unique_expr
InsertUniqueExpr(c, expr) ==
    [ctx |-> [c EXCEPT !.exprs_by_index = Append(@, expr),
                       !.indices_by_expr =
                           MapInsert(@, expr, Len(c.exprs_by_index))],
     ref |-> Len(c.exprs_by_index)]

\* Context::intern_expr without its lookup: every call inserts a node
InternExpr_AlwaysInserts(c, expr) == InsertUniqueExpr(c, expr)

\* Context::intern_expr
InternExpr(c, expr) ==
    IF expr \in DOMAIN c.indices_by_expr
    THEN [ctx |-> c, ref |-> c.indices_by_expr[expr]]
    ELSE InsertUniqueExpr(c, expr)

\* Context::literal_expr
LiteralExpr(c, literal) == InternExpr(c, ExprLiteral(literal))

\* Context::variable_expr
VariableExpr(c, variable) == InternExpr(c, ExprVariable(variable))

\* Context::read_expr
ReadExpr(c, addr) == InternExpr(c, ExprNode("Read", <<addr>>))

RECURSIVE SortRefs(_)
\* sort_unstable_by_key(|expr| expr.0)
SortRefs(s) ==
    IF s = <<>> THEN <<>>
    ELSE LET m == CHOOSE i \in DOMAIN s : \A j \in DOMAIN s : s[i] <= s[j]
         IN  <<s[m]>> \o SortRefs(SubSeq(s, 1, m - 1) \o SubSeq(s, m + 1, Len(s)))

RECURSIVE Flatten_NoNesting(_, _, _, _, _)
\* the loop of add_expr and mul_expr without its Expr::Add / Expr::Mul arm: a
\* nested node of the same kind is kept as an operand
Flatten_NoNesting(c, kind, todo, irreducible_exprs, literal) ==
    IF todo = <<>> THEN [irreducible_exprs |-> irreducible_exprs, literal |-> literal]
    ELSE LET expr == todo[Len(todo)]
             rest == SubSeq(todo, 1, Len(todo) - 1)
             node == GetExpr(c, expr)
         IN  IF node.kind = "Literal"
             THEN Flatten_NoNesting(c, kind, rest, irreducible_exprs,
                          IF kind = "Add" THEN WrappingAdd(literal, node.literal)
                          ELSE WrappingMul(literal, node.literal))
             ELSE Flatten_NoNesting(c, kind, rest, Append(irreducible_exprs, expr), literal)

RECURSIVE Flatten(_, _, _, _, _)
\* the while let Some(expr) = todo.pop() loop of add_expr and mul_expr: the
\* irreducible operands and the folded literal
Flatten(c, kind, todo, irreducible_exprs, literal) ==
    IF todo = <<>> THEN [irreducible_exprs |-> irreducible_exprs, literal |-> literal]
    ELSE LET expr == todo[Len(todo)]
             rest == SubSeq(todo, 1, Len(todo) - 1)
             node == GetExpr(c, expr)
         IN  IF node.kind = "Literal"
             THEN Flatten(c, kind, rest, irreducible_exprs,
                          IF kind = "Add" THEN WrappingAdd(literal, node.literal)
                          ELSE WrappingMul(literal, node.literal))
             ELSE IF node.kind = kind
             THEN Flatten(c, kind, rest \o node.params, irreducible_exprs, literal)
             ELSE Flatten(c, kind, rest, Append(irreducible_exprs, expr), literal)

\* the match on irreducible_exprs.len() that ends add_expr and mul_expr
FinishTerms(c, kind, irreducible_exprs, empty) ==
    IF Len(irreducible_exprs) = 0 THEN LiteralExpr(c, empty)
    ELSE IF Len(irreducible_exprs) = 1 THEN [ctx |-> c, ref |-> irreducible_exprs[1]]
    ELSE InternExpr(c, ExprNode(kind, SortRefs(irreducible_exprs)))

\* Context::add_expr
AddExpr(c, exprs) ==
    LET f == Flatten(c, "Add", exprs, <<>>, U32(0, 0))
    IN  IF f.literal # U32(0, 0)
        THEN LET l == LiteralExpr(c, f.literal)
             IN  FinishTerms(l.ctx, "Add", Append(f.irreducible_exprs, l.ref), U32(0, 0))
        ELSE FinishTerms(c, "Add", f.irreducible_exprs, U32(0, 0))

\* Context::mul_expr without its early return of literal 0
MulExpr_NoZero(c, exprs) ==
    LET f == Flatten(c, "Mul", exprs, <<>>, U32(0, 1))
    IN  IF f.literal # U32(0, 1)
        THEN LET l == LiteralExpr(c, f.literal)
             IN  FinishTerms(l.ctx, "Mul", Append(f.irreducible_exprs, l.ref), U32(0, 1))
        ELSE FinishTerms(c, "Mul", f.irreducible_exprs, U32(0, 1))

\* Context::mul_expr
MulExpr(c, exprs) ==
    LET f == Flatten(c, "Mul", exprs, <<>>, U32(0, 1))
    IN  IF f.literal = U32(0, 0) THEN LiteralExpr(c, U32(0, 0))
        ELSE IF f.literal # U32(0, 1)
        THEN LET l == LiteralExpr(c, f.literal)
             IN  FinishTerms(l.ctx, "Mul", Append(f.irreducible_exprs, l.ref), U32(0, 1))
        ELSE FinishTerms(c, "Mul", f.irreducible_exprs, U32(0, 1))

RECURSIVE PhiFlatten(_, _, _)
\* the while let Some(expr) = todo.pop() loop of phi_expr
PhiFlatten(c, todo, variables) ==
    IF todo = <<>> THEN variables
    ELSE LET expr == todo[Len(todo)]
             rest == SubSeq(todo, 1, Len(todo) - 1)
             node == GetExpr(c, expr)
         IN  IF node.kind = "Phi"
             THEN PhiFlatten(c, rest, variables \o node.params)
             ELSE PhiFlatten(c, rest, Append(variables, expr))

\* Context::phi_expr
PhiExpr(c, variables) ==
    InternExpr(c, ExprNode("Phi", SortRefs(PhiFlatten(c, variables, <<>>))))

RECURSIVE SortedRefSet(_)
\* the elements of a HashSet<ExprRef>, sorted by index
SortedRefSet(S) ==
    IF S = {} THEN <<>>
    ELSE LET m == CHOOSE x \in S : \A y \in S : x <= y
         IN  <<m>> \o SortedRefSet(S \ {m})

\* Context::bit_or_expr and Context::bit_and_expr (kind is BitOr or BitAnd);
\* both assert that exprs is not empty
BitExpr(c, kind, exprs) ==
    IF Cardinality(Range(exprs)) = 1
    THEN [ctx |-> c, ref |-> exprs[1]]
    ELSE InternExpr(c, ExprNode(kind, SortedRefSet(Range(exprs))))

\* Context::not_expr without its Expr::Not arm
NotExpr_NoCancel(c, expr) ==
    LET node == GetExpr(c, expr)
    IN  IF node.kind = "Literal" THEN InternExpr(c, ExprLiteral(BitNot(node.literal)))
        ELSE InternExpr(c, ExprNode("Not", <<expr>>))

\* Context::not_expr
NotExpr(c, expr) ==
    LET node == GetExpr(c, expr)
    IN  IF node.kind = "Literal" THEN InternExpr(c, ExprLiteral(BitNot(node.literal)))
        ELSE IF node.kind = "Not" THEN [ctx |-> c, ref |-> node.params[1]]
        ELSE InternExpr(c, ExprNode("Not", <<expr>>))

\* both operands are literals
BothLiterals(c, lhs, rhs) ==
    GetExpr(c, lhs).kind = "Literal" /\ GetExpr(c, rhs).kind = "Literal"

\* Context::equal_expr
EqualExpr(c, lhs, rhs) ==
    IF lhs = rhs THEN LiteralExpr(c, U32(0, 1))
    ELSE IF BothLiterals(c, lhs, rhs) THEN LiteralExpr(c, U32(0, 0))
    ELSE IF lhs < rhs THEN InternExpr(c, ExprNode("Equal", <<lhs, rhs>>))
    ELSE InternExpr(c, ExprNode("Equal", <<rhs, lhs>>))

\* Context::less_signed_expr and Context::less_unsigned_expr (kind is
\* LessSigned or LessUnsigned)
LessExpr(c, kind, lhs, rhs) ==
    IF lhs = rhs THEN LiteralExpr(c, U32(0, 0))
    ELSE IF BothLiterals(c, lhs, rhs)
    THEN LET a == GetExpr(c, lhs).literal
             b == GetExpr(c, rhs).literal
             less == IF kind = "LessSigned" THEN LessI32(a, b) ELSE LessU32(a, b)
         IN  LiteralExpr(c, IF less THEN U32(0, 1) ELSE U32(0, 0))
    ELSE InternExpr(c, ExprNode(kind, <<lhs, rhs>>))

----------------------------------------------------------------------------
(* powerpc_symbolic: Variable, MachineState, Update.  A Register is a pair *)
(* <<class, number>>; the graphics quantization registers are not among    *)
(* the special purpose registers the inputs name.                          *)

Zero == <<"zero", 0>>

GeneralPurpose(gpr) == <<"gpr", gpr>>

\* Register::SpecialPurpose, numbered as Spr::new numbers them
SpecialPurpose(spr) ==
    <<"spr", CASE spr = "xer" -> 1 [] spr = "lr" -> 8 [] spr = "ctr" -> 9>>

ConditionBit(bit) == <<"cr", bit>>

\* From<GprOrZero> for Register
FromGprOrZero(gprz) ==
    IF "zero" \in DOMAIN gprz THEN Zero ELSE GeneralPurpose(gprz.gpr)

\* ConditionBit::from_crf_and_condition; LT, GT, EQ, SO are 0, 1, 2, 3
FromCrfAndCondition(crf, condition) == ConditionBit(4 * crf + condition)

\* an i16 cast to u32
I16AsU32(v) == IF v < 0 THEN U32(Half - 1, v + Half) ELSE U32(0, v)

\* NumberedVariable<Variable>
Variable(kind, addr, register, number) ==
    [kind |-> kind, addr |-> addr, register |-> register, number |-> number]

Garbage == Variable("Garbage", U32(0, 0), Zero, 0)

RegisterEntering(basic_block_addr, register) ==
    Variable("RegisterEntering", basic_block_addr, register, 0)

RegisterLeaving(basic_block_addr, register) ==
    Variable("RegisterLeaving", basic_block_addr, register, 0)

Return(call_addr) == Variable("Return", call_addr, Zero, 0)

Numbered(number) == Variable("Numbered", U32(0, 0), Zero, number)

\* Context::is_variable
IsVariable(c, ref) == GetExpr(c, ref).kind = "Variable"

\* Context::get_variable_assignment
GetVariableAssignment(c, variable) ==
    IF variable \in DOMAIN c.variable_assignments
    THEN Some(c.variable_assignments[variable]) ELSE None

\* Context::assign_variable
AssignVariable(c, variable, assignment) ==
    [c EXCEPT !.variable_assignments = MapInsert(@, variable, assignment)]

\* Context::get_expr_leaves
GetExprLeaves(c, expr) == GetExpr(c, expr).params

\* A MachineState with its NumberedContext is a record [ctx,
\* next_variable_number, basic_block, registers].

\* MachineState::new
MachineStateNew(c, number, basic_block) ==
    [ctx |-> c, next_variable_number |-> number,
     basic_block |-> basic_block, registers |-> EmptyMap]

\* the machine state with the Context a constructor returned
WithCtx(m, r) == [m EXCEPT !.ctx = r.ctx]

\* MachineState::get_register: the machine state and the ExprRef
GetRegister(m, register) ==
    IF register = Zero
    THEN LET r == LiteralExpr(m.ctx, U32(0, 0)) IN [m |-> WithCtx(m, r), ref |-> r.ref]
    ELSE IF register \in DOMAIN m.registers
    THEN [m |-> m, ref |-> m.registers[register]]
    ELSE LET r == VariableExpr(m.ctx, RegisterEntering(m.basic_block, register))
         IN  [m |-> [m EXCEPT !.ctx = r.ctx,
                              !.registers = MapInsert(@, register, r.ref)],
              ref |-> r.ref]

\* NumberedContext::next_numbered_variable_expr
NextNumberedVariableExpr(m) ==
    LET r == VariableExpr(m.ctx, Numbered(m.next_variable_number))
    IN  [m |-> [m EXCEPT !.ctx = r.ctx, !.next_variable_number = @ + 1], ref |-> r.ref]

\* Update::new
UpdateNew == [registers |-> EmptyMap, writes |-> <<>>]

\* Update::set_register
SetRegister(update, register, data) ==
    [update EXCEPT !.registers = MapInsert(@, register, data)]

\* Write
Write(addr, data) == [width |-> "Word", addr |-> addr, data |-> data]

\* Update::add_write
AddWrite(update, addr, data) ==
    [update EXCEPT !.writes = Append(@, Write(addr, data))]

\* what prepare_update returns: the machine state and the Update, or a panic
Updated(m, update) == [m |-> m, update |-> update, panic |-> FALSE]

\* todo!()
Todo(m) == [m |-> m, update |-> UpdateNew, panic |-> TRUE]

\* the registers a function call clobbers: r0, r5..r12, lr, ctr, xer and
\* the condition bits 0..7 and 20..31
Volatile ==
    {GeneralPurpose(0)} \cup {GeneralPurpose(gpr) : gpr \in 5..12}
        \cup {SpecialPurpose("lr"), SpecialPurpose("ctr"), SpecialPurpose("xer")}
        \cup {ConditionBit(bit) : bit \in (0..7) \cup (20..31)}

\* prepare_update: literal_expr(offset), get_register(base), add_expr
EffectiveAddress(m, instruction) ==
    LET offset_expr == LiteralExpr(m.ctx, I16AsU32(instruction.offset))
        base_expr == GetRegister(WithCtx(m, offset_expr), FromGprOrZero(instruction.base))
        addr_expr == AddExpr(base_expr.m.ctx, <<offset_expr.ref, base_expr.ref>>)
    IN  [m |-> WithCtx(base_expr.m, addr_expr), ref |-> addr_expr.ref]

\* MachineState::prepare_update
PrepareUpdate(m, cia, instruction) ==
    CASE instruction.op = "Addi" ->
            LET src_expr == GetRegister(m, FromGprOrZero(instruction.src))
                immediate_expr ==
                    LiteralExpr(src_expr.m.ctx, I16AsU32(instruction.immediate))
                add_expr == AddExpr(immediate_expr.ctx,
                                    <<src_expr.ref, immediate_expr.ref>>)
            IN  Updated(WithCtx(src_expr.m, add_expr),
                        SetRegister(UpdateNew, GeneralPurpose(instruction.dst),
                                    add_expr.ref))
      [] instruction.op \in {"B", "Bc", "Bclr"} ->
            IF BranchInfo(instruction)[1].link
            THEN LET garbage == VariableExpr(m.ctx, Garbage)
                     return_var == VariableExpr(garbage.ctx, Return(cia))
                 IN  Updated(WithCtx(m, return_var),
                             [registers |->
                                  [register \in Volatile \cup {GeneralPurpose(3)} |->
                                      IF register = GeneralPurpose(3)
                                      THEN return_var.ref ELSE garbage.ref],
                              writes |-> <<>>])
            ELSE Updated(m, UpdateNew)
      [] instruction.op = "Cmpli" ->
            LET lhs_expr == GetRegister(m, GeneralPurpose(instruction.src))
                rhs_expr == LiteralExpr(lhs_expr.m.ctx, U32(0, instruction.immediate))
                lt_expr == LessExpr(rhs_expr.ctx, "LessUnsigned",
                                    lhs_expr.ref, rhs_expr.ref)
                gt_expr == LessExpr(lt_expr.ctx, "LessUnsigned",
                                    rhs_expr.ref, lhs_expr.ref)
                eq_expr == EqualExpr(gt_expr.ctx, lhs_expr.ref, rhs_expr.ref)
            IN  Updated(WithCtx(lhs_expr.m, eq_expr),
                        SetRegister(
                            SetRegister(
                                SetRegister(UpdateNew,
                                            FromCrfAndCondition(instruction.crf, 0),
                                            lt_expr.ref),
                                FromCrfAndCondition(instruction.crf, 1), gt_expr.ref),
                            FromCrfAndCondition(instruction.crf, 2), eq_expr.ref))
      [] instruction.op = "Lwz" ->
            LET addr_expr == EffectiveAddress(m, instruction)
                read_variable == NextNumberedVariableExpr(addr_expr.m)
                data_expr == ReadExpr(read_variable.m.ctx, addr_expr.ref)
            IN  Updated([read_variable.m EXCEPT
                             !.ctx = AssignVariable(data_expr.ctx, read_variable.ref,
                                                    data_expr.ref)],
                        SetRegister(UpdateNew, GeneralPurpose(instruction.r),
                                    read_variable.ref))
      [] instruction.op = "Mfspr" ->
            LET spr_expr == GetRegister(m, SpecialPurpose(instruction.spr))
            IN  Updated(spr_expr.m,
                        SetRegister(UpdateNew, GeneralPurpose(instruction.dst),
                                    spr_expr.ref))
      [] instruction.op = "Mtspr" ->
            LET src_expr == GetRegister(m, GeneralPurpose(instruction.src))
            IN  Updated(src_expr.m,
                        SetRegister(UpdateNew, SpecialPurpose(instruction.spr),
                                    src_expr.ref))
      [] instruction.op = "Or" ->
            LET src0_expr == GetRegister(m, GeneralPurpose(instruction.srcs[1]))
                src1_expr == GetRegister(src0_expr.m, GeneralPurpose(instruction.srcs[2]))
                bit_or_expr == BitExpr(src1_expr.m.ctx, "BitOr",
                                       <<src0_expr.ref, src1_expr.ref>>)
                update == SetRegister(UpdateNew, GeneralPurpose(instruction.dst),
                                      bit_or_expr.ref)
            IN  IF instruction.record
                THEN LET zero == LiteralExpr(bit_or_expr.ctx, U32(0, 0))
                         lt == LessExpr(zero.ctx, "LessSigned", bit_or_expr.ref, zero.ref)
                         gt == LessExpr(lt.ctx, "LessSigned", zero.ref, bit_or_expr.ref)
                         eq == EqualExpr(gt.ctx, bit_or_expr.ref, zero.ref)
                     IN  Updated(WithCtx(src1_expr.m, eq),
                                 SetRegister(
                                     SetRegister(
                                         SetRegister(update, ConditionBit(0), lt.ref),
                                         ConditionBit(1), gt.ref),
                                     ConditionBit(2), eq.ref))
                ELSE Updated(WithCtx(src1_expr.m, bit_or_expr), update)
      [] instruction.op = "Stw" ->
            LET addr_expr == EffectiveAddress(m, instruction)
                data_expr == GetRegister(addr_expr.m, GeneralPurpose(instruction.r))
            IN  Updated(data_expr.m, AddWrite(UpdateNew, addr_expr.ref, data_expr.ref))
      [] instruction.op = "Stwu" ->
            LET addr_expr == EffectiveAddress(m, instruction)
                data_expr == GetRegister(addr_expr.m, GeneralPurpose(instruction.r))
            IN  Updated(data_expr.m,
                        AddWrite(SetRegister(UpdateNew, FromGprOrZero(instruction.base),
                                             addr_expr.ref),
                                 addr_expr.ref, data_expr.ref))
      [] instruction.op \in {"Addis", "Addze", "Cmpi", "Cmpl", "Crxor", "Lbz", "Lha",
                             "Rlwinm", "Srawi", "Stmw"} -> Todo(m)

\* an apply that keeps the value of a register the state already holds
Apply_KeepsOld(m, update) ==
    [m EXCEPT !.registers =
        [register \in DOMAIN @ \cup DOMAIN update.registers |->
            IF register \in DOMAIN @
            THEN @[register] ELSE update.registers[register]]]

\* MachineState::apply
Apply(m, update) ==
    [m EXCEPT !.registers =
        [register \in DOMAIN @ \cup DOMAIN update.registers |->
            IF register \in DOMAIN update.registers
            THEN update.registers[register] ELSE @[register]]]

----------------------------------------------------------------------------
\* the database held in the two variables
db == [facts_by_addr |-> facts_by_addr, facts_by_type_id |-> facts_by_type_id]

dbVars == <<facts_by_addr, facts_by_type_id>>

harnessVars == <<last_call, calls>>

ctxVars == <<ctx, ctx_call>>

analyzeVars == <<image, entry_point, overflow_checks, pc, addrs_to_scan, scan_addr,
                 fetched, scan_starts, blocks_to_scan, builders_by_addr>>

wsVars == <<work_set, ws_call, loop, loop_pc, loop_item, handed>>

exprVars == <<basic_block_addrs, blocks_done, next_variable_number, exprs_to_visit,
              popped>>

\* the state of the library crates that are exercised on their own, and of
\* build_expressions
machineVars == <<machine, machine_call, machine_log>>

libVars == <<ctxVars, wsVars, exprVars, machineVars>>

vars == <<dbVars, harnessVars, analyzeVars, libVars>>

\* FactDatabase::new
DbNew == facts_by_addr = EmptyMap /\ facts_by_type_id = EmptyMap

\* no harness call has been made
HarnessIdle == last_call = [op |-> "new"] /\ calls = 0

\* analyze is not running
AnalyzeIdle ==
    /\ image = EmptyMap
    /\ entry_point = U32(0, 0)
    /\ overflow_checks = FALSE
    /\ pc = "idle"
    /\ addrs_to_scan = WorkSetNew
    /\ scan_addr = U32(0, 0)
    /\ fetched = EmptyMap
    /\ scan_starts = {}
    /\ blocks_to_scan = WorkSetNew
    /\ builders_by_addr = EmptyMap

\* Context::new, and no constructor called yet
CtxNew == ctx = ContextNew /\ ctx_call = [op |-> "new", ref |-> 0, hit |-> FALSE]

\* WorkSet::new, and no method called and no worklist loop running
WsNew ==
    /\ work_set = WorkSetNew
    /\ ws_call = [op |-> "new"]
    /\ loop = [style |-> "none"]
    /\ loop_pc = "idle"
    /\ loop_item = None
    /\ handed = EmptyMap

\* build_expressions is not running
ExprNew ==
    /\ basic_block_addrs = <<>>
    /\ blocks_done = 0
    /\ next_variable_number = 0
    /\ exprs_to_visit = WorkSetNew
    /\ popped = None

\* MachineState::new on a new Context, and no method called
MachineNew ==
    /\ machine = MachineStateNew(ContextNew, 0, U32(0, 0))
    /\ machine_call = [op |-> "new", calls |-> 0]
    /\ machine_log = [applied |-> EmptyMap, read |-> EmptyMap]

LibNew == CtxNew /\ WsNew /\ ExprNew /\ MachineNew

----------------------------------------------------------------------------
(* SpecDb: every sequence of calls on one FactDatabase                     *)

MaxCalls == 3

DbAddrs == {U32(0, 4096), U32(0, 4100)}

\* the facts a caller can hand to insert_fact_with
SampleFacts(kind) ==
    CASE kind = "BranchTarget" -> {[sources |-> {a}] : a \in DbAddrs}
      [] kind = "Subroutine" -> {SubroutineFact}
      [] kind = "SubroutineCall" -> {SubroutineCallFact(a) : a \in DbAddrs}
      [] kind = "BasicBlockEnd" -> {[successors |-> {a}] : a \in DbAddrs}
      [] kind = "ParseError" ->
            {ParseErrorFact(IllegalEncoding),
             ParseErrorFact([error |-> "UnimplementedOpcode", opcode |-> 0])}
      [] kind = "BasicBlock" ->
            {[end_addr |-> WrappingAdd(a, Four), predecessors |-> <<>>,
              successors |-> <<>>, writes |-> <<>>] : a \in DbAddrs}

\* what a caller can do through a &mut to a fact of this kind
Mutations(kind, fact) ==
    CASE kind = "BranchTarget" -> {RecordSource(fact, a) : a \in DbAddrs}
      [] kind = "BasicBlockEnd" -> {RecordSuccessor(fact, a) : a \in DbAddrs}
      [] kind = "BasicBlock" -> {RecordWrite(fact, "w")}
      [] OTHER -> {fact}

SetDb(d) ==
    /\ facts_by_addr' = d.facts_by_addr
    /\ facts_by_type_id' = d.facts_by_type_id

\* fact_or_default::<K>(a), then possibly a write through the returned &mut K
DbFactOrDefault(kind, a) ==
    /\ calls < MaxCalls
    /\ LET d == FactOrDefault(db, kind, a)
           fact == d.facts_by_addr[a][kind]
       IN  \E new \in {fact} \cup Mutations(kind, fact) :
               SetDb(GetFactMut(d, kind, a, new))
    /\ last_call' = [op |-> "fact_or_default", kind |-> kind, addr |-> a,
                     existed |-> GetFact(db, kind, a) # None]
    /\ calls' = calls + 1
    /\ UNCHANGED <<analyzeVars, libVars>>

\* insert_fact_with::<K>(a, || fact)
DbInsertFactWith(kind, a, fact) ==
    /\ calls < MaxCalls
    /\ SetDb(InsertFactWith(db, kind, a, fact))
    /\ last_call' = [op |-> "insert_fact_with", kind |-> kind, addr |-> a,
                     existed |-> GetFact(db, kind, a) # None, fact |-> fact]
    /\ calls' = calls + 1
    /\ UNCHANGED <<analyzeVars, libVars>>

\* get_fact::<K>(a)
DbGetFact(kind, a) ==
    /\ calls < MaxCalls
    /\ last_call' = [op |-> "get_fact", kind |-> kind, addr |-> a,
                     existed |-> GetFact(db, kind, a) # None]
    /\ calls' = calls + 1
    /\ UNCHANGED <<dbVars, analyzeVars, libVars>>

\* get_fact_mut::<K>(a), then possibly a write through the returned &mut K
DbGetFactMut(kind, a) ==
    /\ calls < MaxCalls
    /\ IF GetFact(db, kind, a) = None
       THEN UNCHANGED dbVars
       ELSE LET fact == GetFact(db, kind, a)[1]
            IN  \E new \in {fact} \cup Mutations(kind, fact) :
                    SetDb(GetFactMut(db, kind, a, new))
    /\ last_call' = [op |-> "get_fact_mut", kind |-> kind, addr |-> a,
                     existed |-> GetFact(db, kind, a) # None]
    /\ calls' = calls + 1
    /\ UNCHANGED <<analyzeVars, libVars>>

InitDb == DbNew /\ HarnessIdle /\ AnalyzeIdle /\ LibNew

NextDb ==
    \/ \E kind \in DefaultKinds, a \in DbAddrs : DbFactOrDefault(kind, a)
    \/ \E kind \in Kinds, a \in DbAddrs :
           \E fact \in SampleFacts(kind) : DbInsertFactWith(kind, a, fact)
    \/ \E kind \in Kinds, a \in DbAddrs : DbGetFact(kind, a)
    \/ \E kind \in Kinds, a \in DbAddrs : DbGetFactMut(kind, a)

SpecDb == InitDb /\ [][NextDb]_vars

----------------------------------------------------------------------------
(* Claims about the fact database                                          *)

\* C1: for every address A and fact kind K, iter_facts_with_type::<K>()
\* yields A if and only if get_fact::<K>(A) is Some.
C1_IndexAgreesWithStore ==
    \A kind \in Kinds :
        \A a \in DbAddrs \cup DOMAIN facts_by_addr \cup IterFactsWithType(db, kind) :
            (a \in IterFactsWithType(db, kind)) <=> (GetFact(db, kind, a) # None)

\* C1 witness: after a mixed sequence of calls one kind is present at one
\* address and absent at the other, and the index lists exactly the former.
C1_Witness ==
    /\ calls >= 3
    /\ last_call.op \in {"get_fact", "get_fact_mut"}
    /\ \E a, b \in DbAddrs :
          /\ GetFact(db, "BranchTarget", a) # None
          /\ GetFact(db, "BranchTarget", b) = None
          /\ IterFactsWithType(db, "BranchTarget") = {a}
          /\ GetFact(db, "SubroutineCall", b) # None

\* what one step of the database does to the cell (a, kind)
CellKept(kind, a) == GetFact(db, kind, a)' = GetFact(db, kind, a)

\* C2: insert_fact_with::<K>(addr, f) leaves an existing K-fact at addr as it
\* is, leaves every other (address, kind) cell as it is in every case, and a
\* cell that is Some stays Some in every later state.
C2_InsertNeverOverwrites ==
    [][\A kind \in Kinds : \A a \in DbAddrs \cup DOMAIN facts_by_addr :
          /\ GetFact(db, kind, a) # None => GetFact(db, kind, a)' # None
          /\ last_call'.op = "insert_fact_with" =>
                /\ last_call'.existed /\ a = last_call'.addr /\ kind = last_call'.kind
                      => CellKept(kind, a)
                /\ a # last_call'.addr \/ kind # last_call'.kind => CellKept(kind, a)
                /\ ~last_call'.existed /\ a = last_call'.addr /\ kind = last_call'.kind
                      => GetFact(db, kind, a)' = Some(last_call'.fact)]_vars

\* C2 witness: insert_fact_with was called on a cell that already held a
\* different fact (one that had accumulated a source), and the cell kept it.
C2_Witness ==
    /\ last_call.op = "insert_fact_with"
    /\ last_call.existed
    /\ GetFact(db, last_call.kind, last_call.addr) # Some(last_call.fact)
    /\ last_call.kind = "BranchTarget"
    /\ Cardinality(GetFact(db, "BranchTarget", last_call.addr)[1].sources) = 2

----------------------------------------------------------------------------
(* analyze: the discovery pass                                             *)

\* number of words of the code image
CodeWords == 3

\* the image is mapped from 0xfffffff8 upwards, across the end of the
\* address space (two DOL sections): 0xfffffff8, 0xfffffffc, 0x0, 0x4, ...
ImageBase == U32(65535, 65528)

ImageAddrs == {WrappingAdd(ImageBase, U32(0, 4 * i)) : i \in 0..(CodeWords - 1)}

\* the words an image is made of
CodeWordSet ==
    { U32(14432, 5),        \* 0x38600005  addi r3, 0, 5
      U32(0, 0),            \* 0x00000000  unimplemented opcode 0
      U32(18432, 8),        \* 0x48000008  b +8
      U32(19455, 65532),    \* 0x4bfffffc  b -4
      U32(18432, 9),        \* 0x48000009  bl +8
      U32(16770, 8),        \* 0x41820008  beq +8
      U32(16896, 65532),    \* 0x4200fffc  bdnz -4
      U32(20096, 32),       \* 0x4e800020  blr
      U32(20096, 33) }      \* 0x4e800021  blrl

\* dol::Reader::read is defined on the mapped addresses only
Mapped(a) == a \in DOMAIN image

\* the instruction at a mapped address
Decode(a) == Parse(image[a], a)

\* the branch handling without the fall-through successor of a conditional
\* branch
HandleBranch_NoFallThrough(d, ws, a, branch_info, checks) ==
    IF branch_info.target # None
    THEN LET target == branch_info.target[1]
             d1 == RecordBranchTarget(d, target, a)
             ws1 == WorkSetInsert(ws, target)
         IN  IF branch_info.link
             THEN [db |-> InsertFactWith(
                              InsertFactWith(d1, "SubroutineCall", a,
                                             SubroutineCallFact(target)),
                              "Subroutine", target, SubroutineFact),
                   ws |-> ws1, panic |-> FALSE]
             ELSE [db |-> RecordBlockEndSuccessor(d1, a, target), ws |-> ws1,
                   panic |-> FALSE]
    ELSE IF ~branch_info.link
         THEN [db |-> FactOrDefault(d, "BasicBlockEnd", a), ws |-> ws,
               panic |-> FALSE]
         ELSE [db |-> d, ws |-> ws, panic |-> FALSE]

\* the branch handling of one scanned instruction: the facts recorded, the
\* targets opened, and whether addr + 4 overflowed on the way
HandleBranch(d, ws, a, branch_info, checks) ==
    IF branch_info.target # None
    THEN LET target == branch_info.target[1]
             d1 == RecordBranchTarget(d, target, a)
             ws1 == WorkSetInsert(ws, target)
         IN  IF branch_info.link
             THEN [db |-> InsertFactWith(
                              InsertFactWith(d1, "SubroutineCall", a,
                                             SubroutineCallFact(target)),
                              "Subroutine", target, SubroutineFact),
                   ws |-> ws1, panic |-> FALSE]
             ELSE LET d2 == RecordBlockEndSuccessor(d1, a, target)
                  IN  IF IsConditional(branch_info)
                      THEN IF checks /\ Add4Overflows(a)
                           THEN [db |-> d2, ws |-> ws1, panic |-> TRUE]
                           ELSE [db |-> RecordBlockEndSuccessor(
                                            d2, a, WrappingAdd(a, Four)),
                                 ws |-> ws1, panic |-> FALSE]
                      ELSE [db |-> d2, ws |-> ws1, panic |-> FALSE]
    ELSE IF ~branch_info.link
         THEN [db |-> FactOrDefault(d, "BasicBlockEnd", a), ws |-> ws,
               panic |-> FALSE]
         ELSE [db |-> d, ws |-> ws, panic |-> FALSE]

\* the fetch of one more address
Fetch(f, a) ==
    [x \in DOMAIN f \cup {a} |-> (IF x \in DOMAIN f THEN f[x] ELSE 0)
                                    + (IF x = a THEN 1 ELSE 0)]

Init ==
    /\ DbNew
    /\ HarnessIdle
    /\ LibNew
    /\ image \in [ImageAddrs -> CodeWordSet]
    /\ entry_point \in ImageAddrs
    /\ overflow_checks \in BOOLEAN
    /\ pc = "analyze"
    /\ addrs_to_scan = WorkSetNew
    /\ scan_addr = U32(0, 0)
    /\ fetched = EmptyMap
    /\ scan_starts = {}
    /\ blocks_to_scan = WorkSetNew
    /\ builders_by_addr = EmptyMap

inputVars == <<image, entry_point, overflow_checks>>

buildVars == <<blocks_to_scan, builders_by_addr>>

\* analyze: mark the entry point and open it
AnalyzeStart ==
    /\ pc = "analyze"
    /\ SetDb(InsertFactWith(db, "Subroutine", entry_point, SubroutineFact))
    /\ addrs_to_scan' = WorkSetInsert(WorkSetNew, entry_point)
    /\ pc' = "peek"
    /\ UNCHANGED <<harnessVars, libVars, inputVars, scan_starts, scan_addr, fetched, buildVars>>

\* analyze: while let Some(addr) = addrs_to_scan.peek()
Peek ==
    /\ pc = "peek"
    /\ \E a \in addrs_to_scan.open :
          /\ scan_addr' = a
          /\ scan_starts' = scan_starts \cup {a}
          /\ pc' = "scan"
    /\ UNCHANGED <<dbVars, harnessVars, libVars, inputVars, addrs_to_scan, fetched, buildVars>>

\* scan_and_close_addrs: the address is already closed
ScanClosed ==
    /\ pc = "scan"
    /\ ~WorkSetClose(addrs_to_scan, scan_addr).ret
    /\ addrs_to_scan' = WorkSetClose(addrs_to_scan, scan_addr).ws
    /\ pc' = "peek"
    /\ UNCHANGED <<dbVars, harnessVars, libVars, inputVars, scan_starts, scan_addr, fetched, buildVars>>

\* scan_and_close_addrs: dol.read panics on an unmapped address
ScanUnmapped ==
    /\ pc = "scan"
    /\ WorkSetClose(addrs_to_scan, scan_addr).ret
    /\ ~Mapped(scan_addr)
    /\ addrs_to_scan' = WorkSetClose(addrs_to_scan, scan_addr).ws
    /\ pc' = "scan_panic"
    /\ UNCHANGED <<dbVars, harnessVars, libVars, inputVars, scan_starts, scan_addr, fetched, buildVars>>

\* scan_and_close_addrs with the break after a parse error left out: the run
\* goes on at the next word
ScanParseError_GoesOn ==
    /\ pc = "scan"
    /\ WorkSetClose(addrs_to_scan, scan_addr).ret
    /\ Mapped(scan_addr)
    /\ ~Decode(scan_addr).ok
    /\ addrs_to_scan' = WorkSetClose(addrs_to_scan, scan_addr).ws
    /\ fetched' = Fetch(fetched, scan_addr)
    /\ SetDb(InsertFactWith(db, "ParseError", scan_addr,
                            ParseErrorFact(Decode(scan_addr).error)))
    /\ pc' = "scan"
    /\ scan_addr' = WrappingAdd(scan_addr, Four)
    /\ UNCHANGED <<harnessVars, libVars, inputVars, scan_starts, buildVars>>

\* scan_and_close_addrs: the word does not parse
ScanParseError ==
    /\ pc = "scan"
    /\ WorkSetClose(addrs_to_scan, scan_addr).ret
    /\ Mapped(scan_addr)
    /\ ~Decode(scan_addr).ok
    /\ addrs_to_scan' = WorkSetClose(addrs_to_scan, scan_addr).ws
    /\ fetched' = Fetch(fetched, scan_addr)
    /\ SetDb(InsertFactWith(db, "ParseError", scan_addr,
                            ParseErrorFact(Decode(scan_addr).error)))
    /\ pc' = "peek"
    /\ UNCHANGED <<harnessVars, libVars, inputVars, scan_starts, scan_addr, buildVars>>

\* scan_and_close_addrs: one instruction is scanned
ScanInstruction ==
    /\ pc = "scan"
    /\ WorkSetClose(addrs_to_scan, scan_addr).ret
    /\ Mapped(scan_addr)
    /\ Decode(scan_addr).ok
    /\ fetched' = Fetch(fetched, scan_addr)
    /\ LET ws == WorkSetClose(addrs_to_scan, scan_addr).ws
           branch_info == BranchInfo(Decode(scan_addr).instruction)
           h == IF branch_info = None
                THEN [db |-> db, ws |-> ws, panic |-> FALSE]
                ELSE HandleBranch(db, ws, scan_addr, branch_info[1], overflow_checks)
           stop == branch_info # None /\ Diverges(branch_info[1])
       IN  /\ SetDb(h.db)
           /\ addrs_to_scan' = h.ws
           /\ IF h.panic
              THEN pc' = "scan_panic" /\ UNCHANGED scan_addr
              ELSE IF stop
              THEN pc' = "peek" /\ UNCHANGED scan_addr
              ELSE IF overflow_checks /\ Add4Overflows(scan_addr)
              THEN pc' = "scan_panic" /\ UNCHANGED scan_addr
              ELSE pc' = "scan" /\ scan_addr' = WrappingAdd(scan_addr, Four)
    /\ UNCHANGED <<harnessVars, libVars, inputVars, scan_starts, buildVars>>

\* analyze: the work set has no open address; build_basic_blocks starts
DiscoveryDone ==
    /\ pc = "peek"
    /\ addrs_to_scan.open = {}
    /\ blocks_to_scan' = WorkSetInsert(WorkSetNew, entry_point)
    /\ pc' = "build"
    /\ UNCHANGED <<dbVars, harnessVars, libVars, inputVars, scan_starts, addrs_to_scan, scan_addr,
                   fetched, builders_by_addr>>

----------------------------------------------------------------------------
(* build_basic_blocks                                                      *)

Minus4 == U32(65535, 65532)

\* the loop of BasicBlockFactBuilder::new without its second break: only a
\* BasicBlockEndFact ends a block
StopAddrs_EndsOnly(d) ==
    {a \in DOMAIN d.facts_by_addr : GetFact(d, "BasicBlockEnd", a) # None}

\* the addresses at which the loop of BasicBlockFactBuilder::new breaks: a
\* BasicBlockEndFact is there, or a BranchTargetFact is at the next address
StopAddrs(d) ==
    {a \in DOMAIN d.facts_by_addr : GetFact(d, "BasicBlockEnd", a) # None}
        \cup {WrappingAdd(t, Minus4) :
                t \in {a \in DOMAIN d.facts_by_addr :
                          GetFact(d, "BranchTarget", a) # None}}

\* BasicBlockFactBuilder::new.  The loop visits start, start + 4, ... and
\* breaks at the first stop address.  next_addr += 4 overflows at the last
\* word of the address space: a build with overflow checks panics there, a
\* build without them goes on from the bottom and never returns when there
\* is no stop address at all.
BasicBlockFactBuilderNew(d, start, checks) ==
    LET stops == {a \in StopAddrs(d) : Lo(a) % 4 = Lo(start) % 4}
        above == {a \in stops : ~LessU32(a, start)}
        below == {a \in stops : LessU32(a, start)}
        reach == IF checks THEN {a \in above : ~Add4Overflows(a)}
                 ELSE IF above # {} THEN above ELSE below
    IN  IF reach = {}
        THEN [status |-> IF checks THEN "panic" ELSE "hang"]
        ELSE LET last == MinU32(reach)
                 next_addr == WrappingAdd(last, Four)
                 end_fact == GetFact(d, "BasicBlockEnd", last)
             IN  [status |-> "ok",
                  builder |->
                      [end_addr |-> next_addr,
                       predecessors |-> {},
                       successors |->
                           IF end_fact # None
                           THEN SortedU32(end_fact[1].successors)
                           ELSE <<next_addr>>]]

\* the predecessor pass leaving its inner loop after the first successor
InsertPredecessors_FirstOnly(builders) ==
    [s \in DOMAIN builders |->
        [builders[s] EXCEPT !.predecessors =
            {a \in DOMAIN builders :
                builders[a].successors # <<>> /\ Head(builders[a].successors) = s}]]

\* BasicBlockFactBuilder::insert_predecessor, for every edge of every builder
InsertPredecessors(builders) ==
    [s \in DOMAIN builders |->
        [builders[s] EXCEPT !.predecessors =
            {a \in DOMAIN builders : s \in Range(builders[a].successors)}]]

\* BasicBlockFactBuilder::build
Build(builder) ==
    [end_addr |-> builder.end_addr,
     predecessors |-> SortedU32(builder.predecessors),
     successors |-> builder.successors,
     writes |-> <<>>]

RECURSIVE RecordBlocks(_, _, _)
\* for (addr, builder) in builders_by_addr: db.insert_fact_with(addr, build)
RecordBlocks(d, builders, keys) ==
    IF keys = <<>> THEN d
    ELSE RecordBlocks(InsertFactWith(d, "BasicBlock", Head(keys),
                                     Build(builders[Head(keys)])),
                      builders, Tail(keys))

\* build_basic_blocks: one block is popped and scanned
BuildBlock ==
    /\ pc = "build"
    /\ \E a \in blocks_to_scan.open :
          LET r == BasicBlockFactBuilderNew(db, a, overflow_checks)
          IN  /\ r.status = "ok"
              /\ blocks_to_scan' =
                     WorkSetExtend(WorkSetPop(blocks_to_scan, a), r.builder.successors)
              /\ builders_by_addr' = MapInsert(builders_by_addr, a, r.builder)
    /\ UNCHANGED <<dbVars, harnessVars, libVars, inputVars, scan_starts, pc, addrs_to_scan, scan_addr, fetched>>

\* build_basic_blocks: next_addr += 4 overflows and the build panics
BuildOverflow ==
    /\ pc = "build"
    /\ \E a \in blocks_to_scan.open :
          /\ BasicBlockFactBuilderNew(db, a, overflow_checks).status = "panic"
          /\ blocks_to_scan' = WorkSetPop(blocks_to_scan, a)
    /\ pc' = "build_panic"
    /\ UNCHANGED <<dbVars, harnessVars, libVars, inputVars, scan_starts, addrs_to_scan, scan_addr, fetched,
                   builders_by_addr>>

\* build_basic_blocks: the scan of a block never finds an end
BuildHang ==
    /\ pc = "build"
    /\ \E a \in blocks_to_scan.open :
          /\ BasicBlockFactBuilderNew(db, a, overflow_checks).status = "hang"
          /\ blocks_to_scan' = WorkSetPop(blocks_to_scan, a)
    /\ pc' = "build_hang"
    /\ UNCHANGED <<dbVars, harnessVars, libVars, inputVars, scan_starts, addrs_to_scan, scan_addr, fetched,
                   builders_by_addr>>

\* build_basic_blocks: predecessors are filled in and the blocks recorded
BuildFinish ==
    /\ pc = "build"
    /\ blocks_to_scan.open = {}
    /\ IF \E a \in DOMAIN builders_by_addr :
             ~(Range(builders_by_addr[a].successors) \subseteq DOMAIN builders_by_addr)
       THEN \* builders_by_addr.get_mut(&target).unwrap() panics
            /\ pc' = "build_panic"
            /\ UNCHANGED <<dbVars, builders_by_addr>>
       ELSE /\ builders_by_addr' = InsertPredecessors(builders_by_addr)
            /\ SetDb(RecordBlocks(db, builders_by_addr',
                                  SortedU32(DOMAIN builders_by_addr)))
            /\ pc' = "built"
    /\ UNCHANGED <<harnessVars, libVars, inputVars, scan_starts, addrs_to_scan, scan_addr, fetched,
                   blocks_to_scan>>

Next ==
    \/ AnalyzeStart
    \/ Peek
    \/ ScanClosed
    \/ ScanUnmapped
    \/ ScanParseError
    \/ ScanInstruction
    \/ DiscoveryDone
    \/ BuildBlock
    \/ BuildOverflow
    \/ BuildHang
    \/ BuildFinish

Spec == Init /\ [][Next]_vars

----------------------------------------------------------------------------
(* Claims about the discovery pass                                         *)

DiscoveryPcs == {"analyze", "peek", "scan"}

\* the outer loop of analyze has exited
AfterDiscovery == pc \in {"build", "build_panic", "build_hang", "built"}

\* the address has been read and parsed
Fetched(a) == a \in DOMAIN fetched

\* the next step closes scan_addr and reads a word there
ScansWord ==
    /\ pc = "scan"
    /\ WorkSetClose(addrs_to_scan, scan_addr).ret
    /\ Mapped(scan_addr)

\* the address holds a word that decodes to a branch
BranchAt(a) ==
    /\ Mapped(a)
    /\ Decode(a).ok
    /\ Decode(a).instruction.op \in {"B", "Bc", "Bclr"}

\* the branch at a is taken whatever the condition register and CTR hold
UnconditionalAt(a) ==
    \/ Decode(a).instruction.op = "B"
    \/ /\ Decode(a).instruction.condition.kind = "BranchAlways"
       /\ Decode(a).instruction.ctr = "None"

\* the static target of the branch at a, if it has one
StaticTargetAt(a) ==
    IF Decode(a).instruction.op = "Bclr" THEN None
    ELSE Some(Decode(a).instruction.target)

\* every address a run of this image can come to know
AddrUniverse ==
    ImageAddrs
        \cup {WrappingAdd(a, Four) : a \in ImageAddrs}
        \cup {Parse(w, a).instruction.target :
                <<w, a>> \in {x \in CodeWordSet \X ImageAddrs :
                                 /\ Parse(x[1], x[2]).ok
                                 /\ Parse(x[1], x[2]).instruction.op \in {"B", "Bc"}}}

\* the addresses that are closed: known and no longer open
Closed(ws) == ws.known \ ws.open

\* a variant of the discovery loops: it counts the addresses not yet closed,
\* and orders the positions between two closings
Variant ==
    3 * Cardinality(AddrUniverse \ Closed(addrs_to_scan))
        + (CASE pc = "analyze" -> 2
             [] pc = "peek" -> 1
             [] pc = "scan" /\ scan_addr \in Closed(addrs_to_scan) -> 2
             [] OTHER -> 0)

NoRefetch == \A a \in DOMAIN fetched : fetched[a] <= 1

\* C3 as stated: every address is fetched and decoded at most once, and the
\* outer loop of discovery terminates with no open address left.
C3_Original ==
    /\ NoRefetch
    /\ pc \notin DiscoveryPcs => AfterDiscovery /\ addrs_to_scan.open = {}

\* C3 as amended: every address is fetched and decoded at most once; every
\* step of discovery decreases a variant that is bounded below, so discovery
\* stops; and when its outer loop exits (rather than the analysis panicking
\* on an unmapped read or on addr + 4 overflowing) no address is open and
\* every known address has been fetched.
C3_ScanOnceAndStop ==
    /\ [](NoRefetch)
    /\ [](IterKnown(addrs_to_scan) \subseteq AddrUniverse)
    /\ [](AfterDiscovery =>
            addrs_to_scan.open = {} /\ IterKnown(addrs_to_scan) = DOMAIN fetched)
    /\ [][(pc \in DiscoveryPcs) => (Variant' < Variant)]_vars

\* C3 witness: the outer loop has exited with all three words fetched; the
\* run that fetched the plain instruction at A went on to A+4, which is the
\* entry point and so was closed already, and stopped there.
C3_Witness ==
    /\ pc = "build"
    /\ Cardinality(DOMAIN fetched) = 3
    /\ \E a \in DOMAIN fetched :
          /\ Decode(a).ok /\ ~BranchAt(a)
          /\ WrappingAdd(a, Four) = entry_point

\* the address was scanned and holds a non-linking branch
NonLinkingBranchAt(a) ==
    Fetched(a) /\ BranchAt(a) /\ ~Decode(a).instruction.link

\* the successors the claim gives the branch at a
ClaimedSuccessors(a) ==
    IF StaticTargetAt(a) = None THEN {}
    ELSE IF UnconditionalAt(a) THEN {StaticTargetAt(a)[1]}
    ELSE {StaticTargetAt(a)[1], WrappingAdd(a, Four)}

\* C4: after discovery a BasicBlockEnd fact exists at A exactly when A was
\* scanned and decodes to a non-linking branch; its successors are {T} for
\* an unconditional branch to T, {T, A+4} for a conditional branch to T, and
\* none for a branch without a static target.
C4_BlockEnds ==
    AfterDiscovery =>
        \A a \in ImageAddrs \cup DOMAIN facts_by_addr :
            /\ GetFact(db, "BasicBlockEnd", a) # None <=> NonLinkingBranchAt(a)
            /\ NonLinkingBranchAt(a) =>
                  GetFact(db, "BasicBlockEnd", a)[1].successors = ClaimedSuccessors(a)

\* C4 witness: discovery ended with a conditional branch (two successors), an
\* unconditional branch or return, and a scanned call that is no block end.
C4_Witness ==
    /\ AfterDiscovery
    /\ \E a, b, c \in DOMAIN fetched :
          /\ NonLinkingBranchAt(a) /\ ~UnconditionalAt(a)
          /\ Cardinality(GetFact(db, "BasicBlockEnd", a)[1].successors) = 2
          /\ NonLinkingBranchAt(b) /\ UnconditionalAt(b)
          /\ BranchAt(c) /\ Decode(c).instruction.link
          /\ GetFact(db, "BasicBlockEnd", c) = None

\* the address holds a linking branch with a static target
CallWordAt(a) ==
    /\ BranchAt(a)
    /\ Decode(a).instruction.link
    /\ StaticTargetAt(a) # None

\* the address was scanned and holds a linking branch with a static target
CallAt(a) == Fetched(a) /\ CallWordAt(a)

\* C5: the step that scans a linking branch at A with static target T leaves
\* T open unless T was closed before (or is A itself); and once it has been
\* scanned there is a SubroutineCall fact at A naming T, a Subroutine fact at
\* T and a BranchTarget fact at T with A among its sources, T is known to the
\* work set, and there is no BasicBlockEnd fact at A.
C5_Calls ==
  /\ [][ScansWord /\ CallWordAt(scan_addr) =>
          LET t == StaticTargetAt(scan_addr)[1]
          IN  \/ t \in addrs_to_scan'.open
              \/ t \in Closed(addrs_to_scan) \cup {scan_addr}]_vars
  /\ [](\A a \in DOMAIN fetched :
        CallAt(a) =>
            LET t == StaticTargetAt(a)[1]
            IN  /\ GetFact(db, "SubroutineCall", a) = Some(SubroutineCallFact(t))
                /\ GetFact(db, "Subroutine", t) = Some(SubroutineFact)
                /\ GetFact(db, "BranchTarget", t) # None
                /\ a \in GetFact(db, "BranchTarget", t)[1].sources
                /\ t \in IterKnown(addrs_to_scan)
                /\ \/ t \in addrs_to_scan.open
                   \/ Fetched(t)
                   \/ pc = "scan_panic" /\ scan_addr = t
                /\ GetFact(db, "BasicBlockEnd", a) = None)

\* C5 witness: a call has just been scanned; its target is open and not yet
\* fetched, and the run is about to go on at the word after the call.
C5_Witness ==
    /\ pc = "scan"
    /\ \E a \in DOMAIN fetched :
          /\ CallAt(a)
          /\ StaticTargetAt(a)[1] \in addrs_to_scan.open
          /\ ~Fetched(StaticTargetAt(a)[1])
          /\ scan_addr = WrappingAdd(a, Four)
          /\ scan_addr # StaticTargetAt(a)[1]

\* the branch at a never falls through: unconditional and non-linking
DivergingAt(a) ==
    BranchAt(a) /\ UnconditionalAt(a) /\ ~Decode(a).instruction.link

\* the run goes on at the word after scan_addr
Proceeds == pc' = "scan" /\ scan_addr' = WrappingAdd(scan_addr, Four)

\* C6 as stated, second half: after a diverging branch at A, A+4 is scanned
\* only if some branch has it as its target.
C6_Original ==
    \A a \in DOMAIN fetched :
        DivergingAt(a) /\ Fetched(WrappingAdd(a, Four)) =>
            /\ GetFact(db, "BranchTarget", WrappingAdd(a, Four)) # None
            /\ GetFact(db, "BranchTarget", WrappingAdd(a, Four))[1].sources # {}

\* C6 as amended: after a successfully decoded instruction at A the run
\* goes on at A+4 (modulo 2^32) if and only if the instruction is not a
\* diverging branch, unless addr + 4 overflows in a build that panics on
\* overflow; after a diverging branch at A, A+4 is scanned only if it is the
\* entry point or some branch has it as its target.
C6_FallThrough ==
    /\ [][ScansWord /\ Decode(scan_addr).ok /\ pc' # "scan_panic" =>
            (Proceeds <=> ~DivergingAt(scan_addr))]_vars
    /\ [](\A a \in DOMAIN fetched :
            DivergingAt(a) /\ Fetched(WrappingAdd(a, Four)) =>
                \/ WrappingAdd(a, Four) = entry_point
                \/ /\ GetFact(db, "BranchTarget", WrappingAdd(a, Four)) # None
                   /\ GetFact(db, "BranchTarget", WrappingAdd(a, Four))[1].sources # {})

\* C6 witness: discovery is over; the run went past a scanned conditional
\* branch, stopped at a scanned diverging branch at A, and A+4, which is not
\* the entry point, was scanned because a branch has it as its target.
C6_Witness ==
    /\ AfterDiscovery
    /\ \E a, b \in DOMAIN fetched :
          /\ DivergingAt(a)
          /\ Fetched(WrappingAdd(a, Four))
          /\ WrappingAdd(a, Four) # entry_point
          /\ GetFact(db, "BranchTarget", WrappingAdd(a, Four)) # None
          /\ BranchAt(b) /\ ~UnconditionalAt(b)
          /\ WrappingAdd(b, Four) = a

\* the next step reads a word that does not parse
ParseFails == ScansWord /\ ~Decode(scan_addr).ok

\* a parse error has been recorded
HasParseError == IterFactsWithType(db, "ParseError") # {}

\* what the step that meets a parse error at scan_addr does
ParseErrorStep ==
    /\ GetFact(db, "ParseError", scan_addr)'
           = Some(ParseErrorFact(Decode(scan_addr).error))
    /\ \A a \in DOMAIN facts_by_addr' : \A kind \in Kinds :
           a # scan_addr \/ kind # "ParseError" => CellKept(kind, a)
    /\ pc' = "peek"
    /\ addrs_to_scan'.open = addrs_to_scan.open \ {scan_addr}
    /\ DOMAIN fetched' = DOMAIN fetched \cup {scan_addr}

\* C7 as stated, last part: once a parse error has been met, discovery does
\* not stop before it has scanned every address that was opened.
C7_Original ==
    pc \notin DiscoveryPcs /\ HasParseError =>
        \A x \in IterKnown(addrs_to_scan) : Fetched(x)

\* C7 as amended: a parse error at A records a ParseError fact at A and no
\* other fact, ends the run without scanning A+4 and leaves every other open
\* address open; the outer loop then exits only when every address that was
\* opened has been scanned, unless the analysis panics first (unmapped read,
\* or addr + 4 overflowing in a build that panics on overflow).
C7_ParseErrors ==
    /\ [][ParseFails => ParseErrorStep]_vars
    /\ [](HasParseError /\ pc \in {"peek", "scan"} =>
            addrs_to_scan.open \cup DOMAIN fetched = IterKnown(addrs_to_scan))
    /\ [](HasParseError /\ AfterDiscovery =>
            \A x \in IterKnown(addrs_to_scan) : Fetched(x))

\* C7 witness: a parse error is on record at A, the word after A is mapped
\* and was never fetched, and an address that was open has been scanned.
C7_Witness ==
    /\ AfterDiscovery
    /\ \E a \in IterFactsWithType(db, "ParseError") :
          /\ Mapped(WrappingAdd(a, Four))
          /\ ~Fetched(WrappingAdd(a, Four))
          /\ a # entry_point
    /\ Cardinality(DOMAIN fetched) >= 2

----------------------------------------------------------------------------
(* Claims about build_basic_blocks                                         *)

\* the addresses that carry a BasicBlock fact
Blocks == {a \in DOMAIN facts_by_addr : GetFact(db, "BasicBlock", a) # None}

Successors(a) == Range(GetFact(db, "BasicBlock", a)[1].successors)

Predecessors(a) == Range(GetFact(db, "BasicBlock", a)[1].predecessors)

\* C8: after build_basic_blocks, S is a successor of the block at A if and
\* only if A is a predecessor of the block at S, and every address in a
\* successor or predecessor list carries a BasicBlock fact.
C8_EdgesAgree ==
    pc = "built" =>
        \A a \in Blocks :
            /\ Successors(a) \cup Predecessors(a) \subseteq Blocks
            /\ \A s \in Successors(a) : a \in Predecessors(s)
            /\ \A p \in Predecessors(a) : a \in Successors(p)

\* C8 witness: three blocks were built, one with two successors and one with
\* two predecessors.
C8_Witness ==
    /\ pc = "built"
    /\ Cardinality(Blocks) >= 3
    /\ \E a, b \in Blocks :
          /\ Cardinality(Successors(a)) = 2
          /\ Cardinality(Predecessors(b)) = 2

\* C9: every address that receives a BasicBlock fact is the entry point or
\* carries a BranchTarget fact.
C9_BlockStartsAreTargets ==
    pc = "built" =>
        \A a \in Blocks :
            a = entry_point \/ GetFact(db, "BranchTarget", a) # None

----------------------------------------------------------------------------
(* SpecCtx: every sequence of constructor calls on one Context             *)

\* the most nodes a Context is let grow to
MaxExprs == 2

\* the longest operand list handed to phi_expr, add_expr, mul_expr,
\* bit_or_expr and bit_and_expr
MaxOperands == 2

\* the literals and variables a caller constructs
CtxLiterals == {U32(0, 0), U32(0, 1), U32Max}

CtxVariables == {"x"}

\* the ExprRefs a Context has handed out
Refs(c) == 0..(Len(c.exprs_by_index) - 1)

\* the operand lists of length n
RefLists(c, n) == [1..n -> Refs(c)]

\* one constructor call: the constructor and its arguments
Call(op, literal, variable, exprs) ==
    [op |-> op, literal |-> literal, variable |-> variable, exprs |-> exprs]

\* the operand lists of at most MaxOperands and at least least operands
OperandLists(c, least) == UNION {RefLists(c, n) : n \in least..MaxOperands}

\* the calls of one constructor a caller holding the ExprRefs of c can make
\* (bit_or_expr and bit_and_expr assert that their list is not empty)
CallsOf(c, op) ==
    CASE op = "literal_expr" ->
            {Call(op, l, NoVariable, <<>>) : l \in CtxLiterals}
      [] op = "variable_expr" ->
            {Call(op, U32(0, 0), v, <<>>) : v \in CtxVariables}
      [] op \in {"read_expr", "not_expr"} ->
            {Call(op, U32(0, 0), NoVariable, exprs) : exprs \in RefLists(c, 1)}
      [] op \in {"phi_expr", "add_expr", "mul_expr"} ->
            {Call(op, U32(0, 0), NoVariable, exprs) : exprs \in OperandLists(c, 0)}
      [] op \in {"bit_or_expr", "bit_and_expr"} ->
            {Call(op, U32(0, 0), NoVariable, exprs) : exprs \in OperandLists(c, 1)}
      [] op \in {"equal_expr", "less_signed_expr", "less_unsigned_expr"} ->
            {Call(op, U32(0, 0), NoVariable, exprs) : exprs \in RefLists(c, 2)}

\* the public constructors of Context
Constructors ==
    {"literal_expr", "variable_expr", "read_expr", "not_expr", "phi_expr",
     "add_expr", "mul_expr", "bit_or_expr", "bit_and_expr", "equal_expr",
     "less_signed_expr", "less_unsigned_expr"}

\* the constructor a call names, applied to its arguments
Construct(c, call) ==
    CASE call.op = "literal_expr" -> LiteralExpr(c, call.literal)
      [] call.op = "variable_expr" -> VariableExpr(c, call.variable)
      [] call.op = "read_expr" -> ReadExpr(c, call.exprs[1])
      [] call.op = "not_expr" -> NotExpr(c, call.exprs[1])
      [] call.op = "phi_expr" -> PhiExpr(c, call.exprs)
      [] call.op = "add_expr" -> AddExpr(c, call.exprs)
      [] call.op = "mul_expr" -> MulExpr(c, call.exprs)
      [] call.op = "bit_or_expr" -> BitExpr(c, "BitOr", call.exprs)
      [] call.op = "bit_and_expr" -> BitExpr(c, "BitAnd", call.exprs)
      [] call.op = "equal_expr" -> EqualExpr(c, call.exprs[1], call.exprs[2])
      [] call.op = "less_signed_expr" ->
            LessExpr(c, "LessSigned", call.exprs[1], call.exprs[2])
      [] call.op = "less_unsigned_expr" ->
            LessExpr(c, "LessUnsigned", call.exprs[1], call.exprs[2])

\* one call of the constructor op on the Context
CtxCall(op) ==
    \E call \in CallsOf(ctx, op) :
        /\ LET r == Construct(ctx, call)
           IN  /\ Len(r.ctx.exprs_by_index) <= MaxExprs
               /\ ctx' = r.ctx
               /\ ctx_call' = [op |-> op, ref |-> r.ref, hit |-> r.ctx = ctx]
        /\ UNCHANGED <<dbVars, harnessVars, analyzeVars, wsVars, exprVars, machineVars>>

CtxLiteralExpr == CtxCall("literal_expr")

CtxVariableExpr == CtxCall("variable_expr")

CtxReadExpr == CtxCall("read_expr")

CtxNotExpr == CtxCall("not_expr")

CtxPhiExpr == CtxCall("phi_expr")

CtxAddExpr == CtxCall("add_expr")

CtxMulExpr == CtxCall("mul_expr")

CtxBitOrExpr == CtxCall("bit_or_expr")

CtxBitAndExpr == CtxCall("bit_and_expr")

CtxEqualExpr == CtxCall("equal_expr")

CtxLessSignedExpr == CtxCall("less_signed_expr")

CtxLessUnsignedExpr == CtxCall("less_unsigned_expr")

InitCtx == DbNew /\ HarnessIdle /\ AnalyzeIdle /\ LibNew

NextCtx ==
    \/ CtxLiteralExpr
    \/ CtxVariableExpr
    \/ CtxReadExpr
    \/ CtxNotExpr
    \/ CtxPhiExpr
    \/ CtxAddExpr
    \/ CtxMulExpr
    \/ CtxBitOrExpr
    \/ CtxBitAndExpr
    \/ CtxEqualExpr
    \/ CtxLessSignedExpr
    \/ CtxLessUnsignedExpr

SpecCtx == InitCtx /\ [][NextCtx]_vars

----------------------------------------------------------------------------
(* Claims about the expression Context                                     *)

\* no two distinct indices hold equal nodes
NoDuplicateNodes ==
    \A i, j \in DOMAIN ctx.exprs_by_index :
        ctx.exprs_by_index[i] = ctx.exprs_by_index[j] => i = j

\* making the same call twice in a row returns the same ExprRef, and the
\* second call adds no node.  This reads the Context alone, so it is
\* evaluated once for each Context: in the state that Context::new or the
\* call that added its last node leaves.
SameCallSameRef ==
    ~ctx_call.hit =>
        \A op \in Constructors : \A call \in CallsOf(ctx, op) :
            LET first == Construct(ctx, call)
                second == Construct(first.ctx, call)
            IN  /\ second.ref = first.ref
                /\ second.ctx = first.ctx
                /\ first.ref \in Refs(first.ctx)
                /\ call.op = "literal_expr" =>
                      GetExpr(first.ctx, first.ref) = ExprLiteral(call.literal)
                /\ call.op = "variable_expr" =>
                      GetExpr(first.ctx, first.ref) = ExprVariable(call.variable)

\* a call that finds its node returns the index of a node that was there,
\* and a call that adds nodes adds them at the end
CallReturnsNode ==
    /\ ctx_call'.ref \in Refs(ctx')
    /\ ctx_call'.hit <=> ctx' = ctx

\* the nodes of this state are at the same indices in the next state
RefsKeepTheirNodes ==
    /\ Len(ctx.exprs_by_index) <= Len(ctx'.exprs_by_index)
    /\ \A i \in DOMAIN ctx.exprs_by_index :
          ctx'.exprs_by_index[i] = ctx.exprs_by_index[i]

\* C10: the Context is hash-consed: after any sequence of constructor calls
\* no two distinct indices hold structurally equal nodes; constructing the
\* same literal, variable or operator node twice returns the same ExprRef;
\* and an ExprRef denotes the same node in every later state.
C10_HashConsed ==
    /\ [](NoDuplicateNodes)
    /\ [](SameCallSameRef)
    /\ [][RefsKeepTheirNodes]_vars
    /\ [][ctx_call' # ctx_call => CallReturnsNode]_vars

\* C10 witness: the Context holds a variable and the Add of that variable
\* with itself, and the add_expr call just made returned the Add node
\* without adding one.
C10_Witness ==
    /\ ctx_call.op = "add_expr"
    /\ ctx_call.hit
    /\ Len(ctx.exprs_by_index) = 2
    /\ ctx_call.ref = 1
    /\ GetExpr(ctx, 0).kind = "Variable"
    /\ GetExpr(ctx, 1) = ExprNode("Add", <<0, 0>>)

----------------------------------------------------------------------------
(* SpecTerms: every sequence of literal_expr, variable_expr, add_expr,     *)
(* mul_expr and not_expr calls on one Context                              *)

\* the most nodes the Context is let grow to
MaxNodes == 2

\* the longest operand list handed to add_expr and mul_expr
MaxTerms == 2

\* the literals and variables a caller constructs
TermLiterals == {U32(0, 0), U32(0, 1), U32(0, 2), U32Max}

TermVariables == {"x", "y"}

\* the operand lists of at most MaxTerms ExprRefs of c
TermLists(c) == UNION {RefLists(c, n) : n \in 0..MaxTerms}

\* a call returned r: the Context and the record of the call
TermsReturn(op, r) ==
    /\ Len(r.ctx.exprs_by_index) <= MaxNodes
    /\ ctx' = r.ctx
    /\ ctx_call' = [op |-> op, ref |-> r.ref, hit |-> r.ctx = ctx]
    /\ UNCHANGED <<dbVars, harnessVars, analyzeVars, wsVars, exprVars, machineVars>>

TermsLiteralExpr ==
    \E literal \in TermLiterals : TermsReturn("literal_expr", LiteralExpr(ctx, literal))

TermsVariableExpr ==
    \E variable \in TermVariables :
        TermsReturn("variable_expr", VariableExpr(ctx, variable))

TermsAddExpr ==
    \E exprs \in TermLists(ctx) : TermsReturn("add_expr", AddExpr(ctx, exprs))

TermsMulExpr ==
    \E exprs \in TermLists(ctx) : TermsReturn("mul_expr", MulExpr(ctx, exprs))

TermsNotExpr ==
    \E expr \in Refs(ctx) : TermsReturn("not_expr", NotExpr(ctx, expr))

InitTerms == DbNew /\ HarnessIdle /\ AnalyzeIdle /\ LibNew

NextTerms ==
    \/ TermsLiteralExpr
    \/ TermsVariableExpr
    \/ TermsAddExpr
    \/ TermsMulExpr
    \/ TermsNotExpr

SpecTerms == InitTerms /\ [][NextTerms]_vars

----------------------------------------------------------------------------
(* Claims about the normal forms of add_expr, mul_expr and not_expr        *)

\* add_expr or mul_expr, by the kind of node it builds
TermExpr(c, kind, exprs) == IF kind = "Add" THEN AddExpr(c, exprs) ELSE MulExpr(c, exprs)

\* the literal an empty sum or product is
Identity(kind) == IF kind = "Add" THEN U32(0, 0) ELSE U32(0, 1)

\* the operands of exprs that are literals, and those that are not
LiteralOperands(c, exprs) == SelectSeq(exprs, LAMBDA e : GetExpr(c, e).kind = "Literal")

OtherOperands(c, exprs) == SelectSeq(exprs, LAMBDA e : GetExpr(c, e).kind # "Literal")

RECURSIVE FoldLiterals(_, _, _)
\* the sum or product, modulo 2^32, of a list of literal operands
FoldLiterals(c, kind, lits) ==
    IF lits = <<>> THEN Identity(kind)
    ELSE LET rest == FoldLiterals(c, kind, Tail(lits))
             head == GetExpr(c, lits[1]).literal
         IN  IF kind = "Add" THEN WrappingAdd(head, rest) ELSE WrappingMul(head, rest)

\* exprs in the order p
Permuted(exprs, p) == [i \in DOMAIN exprs |-> exprs[p[i]]]

\* every permutation of every operand list returns the same ExprRef and
\* leaves the same Context
Commutes(c, kind) ==
    \A exprs \in TermLists(c) : \A p \in Permutations(DOMAIN exprs) :
        LET first == TermExpr(c, kind, exprs)
            second == TermExpr(first.ctx, kind, Permuted(exprs, p))
        IN  second.ref = first.ref /\ second.ctx = first.ctx

\* grouping the first k or the last k operands into a nested call returns
\* the ExprRef the flat call returns
Regroups(c, kind) ==
    \A exprs \in TermLists(c) : \A k \in 0..Len(exprs) :
        LET front == SubSeq(exprs, 1, k)
            back == SubSeq(exprs, k + 1, Len(exprs))
            inner_front == TermExpr(c, kind, front)
            left == TermExpr(inner_front.ctx, kind, <<inner_front.ref>> \o back)
            inner_back == TermExpr(left.ctx, kind, back)
            right == TermExpr(inner_back.ctx, kind, front \o <<inner_back.ref>>)
            flat == TermExpr(right.ctx, kind, exprs)
        IN  left.ref = flat.ref /\ right.ref = flat.ref /\ flat.ctx = right.ctx

\* the node at ref is in normal form: an Add or Mul holds at least two
\* operands sorted by index, none of its own kind, and at most one literal,
\* which is not the identity
NormalForm(c, kind, ref) ==
    LET node == GetExpr(c, ref)
        lits == LiteralOperands(c, node.params)
    IN  node.kind = kind =>
            /\ Len(node.params) >= 2
            /\ \A i, j \in DOMAIN node.params : i < j => node.params[i] <= node.params[j]
            /\ \A i \in DOMAIN node.params : GetExpr(c, node.params[i]).kind # kind
            /\ Len(lits) <= 1
            /\ \A i \in DOMAIN lits : GetExpr(c, lits[i]).literal # Identity(kind)

\* the literal operands are folded into their sum or product, which is left
\* out when it is the identity
Folds(c, kind) ==
    \A exprs \in TermLists(c) :
        LET r == TermExpr(c, kind, exprs)
            others == OtherOperands(c, exprs)
            folded == FoldLiterals(c, kind, LiteralOperands(c, exprs))
            l == LiteralExpr(r.ctx, folded)
            with_literal == TermExpr(l.ctx, kind, others \o <<l.ref>>)
            without == TermExpr(r.ctx, kind, others)
        IN  /\ r.ref \in Refs(r.ctx)
            /\ NormalForm(r.ctx, kind, r.ref)
            /\ with_literal.ref = r.ref
            /\ folded = Identity(kind) => without.ref = r.ref /\ without.ctx = r.ctx
            /\ others = <<>> /\ (kind = "Add" \/ folded # U32(0, 0)) =>
                  GetExpr(r.ctx, r.ref) = ExprLiteral(folded)
            /\ folded = Identity(kind) /\ Len(others) = 1
                  /\ GetExpr(c, others[1]).kind # kind => r.ref = others[1] /\ r.ctx = c

\* every Add and Mul node of the Context is in normal form
AllNormal(kind) == \A ref \in Refs(ctx) : NormalForm(ctx, kind, ref)

\* C11: add_expr yields a normal form: every permutation and every
\* regrouping into nested Adds of an operand list returns the same ExprRef;
\* literal operands are folded into one sum modulo 2^32, dropped when zero;
\* the empty sum is literal 0 and a sum with one remaining operand is that
\* operand.  The Context alone decides this, so it is evaluated in the state
\* that the call that added the last node leaves.
C11_AddNormalForm ==
    /\ AllNormal("Add")
    /\ ~ctx_call.hit =>
          /\ Commutes(ctx, "Add")
          /\ Regroups(ctx, "Add")
          /\ Folds(ctx, "Add")
          /\ GetExpr(AddExpr(ctx, <<>>).ctx, AddExpr(ctx, <<>>).ref) = ExprLiteral(U32(0, 0))

\* C11 witness: add_expr has just folded literal 0xffffffff with itself into
\* the new literal 0xfffffffe.
C11_Witness ==
    /\ ctx_call.op = "add_expr"
    /\ ~ctx_call.hit
    /\ ctx.exprs_by_index = <<ExprLiteral(U32Max), ExprLiteral(U32(Half - 1, Half - 2))>>
    /\ ctx_call.ref = 1

\* a literal zero operand makes the product literal 0
ZeroAnnihilates(c) ==
    \A exprs \in TermLists(c) :
        LET r == MulExpr(c, exprs)
        IN  (\E i \in DOMAIN exprs : GetExpr(c, exprs[i]) = ExprLiteral(U32(0, 0))) =>
                GetExpr(r.ctx, r.ref) = ExprLiteral(U32(0, 0))

\* C12: mul_expr yields a normal form: every permutation and every
\* regrouping into nested Muls of an operand list returns the same ExprRef;
\* literal operands are folded into one product modulo 2^32; a literal zero
\* operand makes the result literal 0; a literal product of one is dropped;
\* the empty product is literal 1 and a product with one remaining operand is
\* that operand.
C12_MulNormalForm ==
    /\ AllNormal("Mul")
    /\ ~ctx_call.hit =>
          /\ Commutes(ctx, "Mul")
          /\ Regroups(ctx, "Mul")
          /\ Folds(ctx, "Mul")
          /\ ZeroAnnihilates(ctx)
          /\ GetExpr(MulExpr(ctx, <<>>).ctx, MulExpr(ctx, <<>>).ref) = ExprLiteral(U32(0, 1))

\* C12 witness: mul_expr has just folded literal 0xffffffff with itself into
\* the new literal 1.
C12_Witness ==
    /\ ctx_call.op = "mul_expr"
    /\ ~ctx_call.hit
    /\ ctx.exprs_by_index = <<ExprLiteral(U32Max), ExprLiteral(U32(0, 1))>>
    /\ ctx_call.ref = 1

\* b is the bitwise complement of a: each bit is set in exactly one of them
Complement(a, b) == Hi(a) + Hi(b) = Half - 1 /\ Lo(a) + Lo(b) = Half - 1

\* C13: not_expr is an involution with constant folding: for every
\* expression x of the Context not_expr(not_expr(x)) returns the ExprRef x,
\* and not_expr of a literal L returns the literal node of the bitwise
\* complement of L.
C13_NotInvolution ==
    ~ctx_call.hit =>
        \A x \in Refs(ctx) :
            LET once == NotExpr(ctx, x)
                twice == NotExpr(once.ctx, once.ref)
                node == GetExpr(ctx, x)
                negated == GetExpr(once.ctx, once.ref)
            IN  /\ twice.ref = x
                /\ twice.ctx = once.ctx
                /\ node.kind = "Literal" =>
                      /\ negated.kind = "Literal"
                      /\ Complement(node.literal, negated.literal)
                      /\ negated = ExprLiteral(negated.literal)

\* C13 witness: the Context holds a variable and its Not, and the call
\* not_expr(Not x) has just returned the ExprRef of x without adding a node.
C13_Witness ==
    /\ ctx_call.op = "not_expr"
    /\ ctx_call.hit
    /\ ctx_call.ref = 0
    /\ Len(ctx.exprs_by_index) = 2
    /\ GetExpr(ctx, 0).kind = "Variable"
    /\ GetExpr(ctx, 1) = ExprNode("Not", <<0>>)

----------------------------------------------------------------------------
(* SpecWs: every sequence of insert, peek, pop and close on one WorkSet    *)

\* the number of items in the universe
MaxItems == 4

Items == 0..(MaxItems - 1)

\* unknown, open or closed
ItemState(ws, item) ==
    IF item \in ws.open THEN "open"
    ELSE IF item \in ws.known THEN "closed" ELSE "unknown"

\* the record of a call: the method, its argument, what it returned and the
\* state its argument was in
WsCall(op, item, ret) ==
    [op |-> op, item |-> item, ret |-> ret,
     was |-> IF item = None THEN "" ELSE ItemState(work_set, item[1])]

loopVars == <<loop, loop_pc, loop_item, handed>>

WsInsert ==
    \E item \in Items :
        /\ work_set' = WorkSetInsert(work_set, item)
        /\ ws_call' = WsCall("insert", Some(item), None)
        /\ UNCHANGED <<dbVars, harnessVars, analyzeVars, ctxVars, loopVars, exprVars, machineVars>>

WsPeek ==
    \E ret \in WorkSetPeek(work_set) :
        /\ ws_call' = WsCall("peek", None, ret)
        /\ UNCHANGED <<dbVars, harnessVars, analyzeVars, ctxVars, loopVars, exprVars, machineVars, work_set>>

WsPop ==
    \E ret \in WorkSetPeek(work_set) :
        /\ work_set' = IF ret = None THEN work_set ELSE WorkSetPop(work_set, ret[1])
        /\ ws_call' = WsCall("pop", None, ret)
        /\ UNCHANGED <<dbVars, harnessVars, analyzeVars, ctxVars, loopVars, exprVars, machineVars>>

WsClose ==
    \E item \in Items :
        LET r == WorkSetClose(work_set, item)
        IN  /\ work_set' = r.ws
            /\ ws_call' = WsCall("close", Some(item), Some(r.ret))
            /\ UNCHANGED <<dbVars, harnessVars, analyzeVars, ctxVars, loopVars, exprVars, machineVars>>

InitWs == DbNew /\ HarnessIdle /\ AnalyzeIdle /\ LibNew

NextWs ==
    \/ WsInsert
    \/ WsPeek
    \/ WsPop
    \/ WsClose

SpecWs == InitWs /\ [][NextWs]_vars

----------------------------------------------------------------------------
(* SpecLoop: the worklist loop of the WorkSet documentation, over every    *)
(* successor function i -> {(i + s) mod n : s in steps}                    *)

\* the documented example: insert(1), successor (item + 7) % 10
ExampleStart == 1

ExampleStep == 7

ExampleModulus == 10

\* a loop: pop, or peek followed by close; the items are 0..modulus-1
Loop(style, modulus, steps, start) ==
    [style |-> style, modulus |-> modulus, steps |-> steps, start |-> start]

\* the size of the universe of the other loops
MaxLoopItems == 3

Loops ==
    {Loop(style, MaxLoopItems, steps, start) :
        style \in {"pop", "peek"},
        steps \in SUBSET (0..(MaxLoopItems - 1)),
        start \in SUBSET (0..(MaxLoopItems - 1))}
    \cup {Loop(style, ExampleModulus, {ExampleStep}, {ExampleStart}) :
            style \in {"pop", "peek"}}

\* the items the loop inserts for an item
LoopSuccessors(l, item) == {(item + step) % l.modulus : step \in l.steps}

\* the items inserted before the loop
InitLoop ==
    /\ DbNew /\ HarnessIdle /\ AnalyzeIdle /\ CtxNew /\ ExprNew /\ MachineNew
    /\ loop \in Loops
    /\ work_set = WorkSetExtend(WorkSetNew, SortedRefSet(loop.start))
    /\ ws_call = [op |-> "new"]
    /\ loop_pc = "take"
    /\ loop_item = None
    /\ handed = EmptyMap

\* the number of times item was handed out, one more
HandOut(item) ==
    MapInsert(handed, item, IF item \in DOMAIN handed THEN handed[item] + 1 ELSE 1)

nonLoopVars == <<dbVars, harnessVars, analyzeVars, ctxVars, ws_call, loop, exprVars,
                 machineVars>>

\* while let Some(item) = work_set.pop().copied()
LoopPop ==
    /\ loop_pc = "take" /\ loop.style = "pop"
    /\ \E ret \in WorkSetPeek(work_set) :
          /\ ret # None
          /\ work_set' = WorkSetPop(work_set, ret[1])
          /\ loop_item' = ret
          /\ handed' = HandOut(ret[1])
    /\ loop_pc' = "body"
    /\ UNCHANGED nonLoopVars

\* while let Some(item) = work_set.peek().copied()
LoopPeek ==
    /\ loop_pc = "take" /\ loop.style = "peek"
    /\ \E ret \in WorkSetPeek(work_set) :
          /\ ret # None
          /\ loop_item' = ret
          /\ handed' = HandOut(ret[1])
    /\ loop_pc' = "body"
    /\ UNCHANGED <<nonLoopVars, work_set>>

\* pop or peek returned None: the loop ends
LoopExit ==
    /\ loop_pc = "take"
    /\ WorkSetPeek(work_set) = {None}
    /\ loop_pc' = "done"
    /\ UNCHANGED <<nonLoopVars, work_set, loop_item, handed>>

\* the body inserts the successors of the item
LoopInsert ==
    /\ loop_pc = "body"
    /\ work_set' = WorkSetExtend(work_set,
                                 SortedRefSet(LoopSuccessors(loop, loop_item[1])))
    /\ loop_pc' = IF loop.style = "pop" THEN "take" ELSE "close"
    /\ UNCHANGED <<nonLoopVars, loop_item, handed>>

\* work_set.close(item), which ends the body of the peek loop
LoopClose ==
    /\ loop_pc = "close"
    /\ work_set' = WorkSetClose(work_set, loop_item[1]).ws
    /\ loop_pc' = "take"
    /\ UNCHANGED <<nonLoopVars, loop_item, handed>>

NextLoop ==
    \/ LoopPop
    \/ LoopPeek
    \/ LoopExit
    \/ LoopInsert
    \/ LoopClose

SpecLoop == InitLoop /\ [][NextLoop]_vars

----------------------------------------------------------------------------
(* Claims about the WorkSet                                                *)

\* unknown, then open, then closed
Rank(state) == CASE state = "unknown" -> 0 [] state = "open" -> 1 [] state = "closed" -> 2

\* the call just made is insert(x): x becomes open if it was unknown, and
\* nothing else changes
InsertStep ==
    \A item \in Items :
        ItemState(work_set', item) =
            IF Some(item) = ws_call'.item /\ ItemState(work_set, item) = "unknown"
            THEN "open" ELSE ItemState(work_set, item)

\* C14: under any sequence of insert, peek, pop and close every item's state
\* only moves forward along unknown -> open -> closed: insert(x) makes an
\* unknown x open and has no effect on an open or closed x, a closed item is
\* never open again, and iter_known never loses an item.
C14_ForwardOnly ==
    /\ [](work_set.open \subseteq work_set.known)
    /\ [][\A item \in Items :
              Rank(ItemState(work_set, item)) <= Rank(ItemState(work_set', item))]_vars
    /\ [][IterKnown(work_set) \subseteq IterKnown(work_set')]_vars
    /\ [][ws_call'.op = "insert" => InsertStep]_vars
    /\ [][ws_call'.op = "insert" /\ ws_call'.was # "unknown" => work_set' = work_set]_vars

\* C14 witness: insert has just been called on a closed item, while another
\* item is open and a third is unknown.
C14_Witness ==
    /\ ws_call.op = "insert"
    /\ ws_call.was = "closed"
    /\ ItemState(work_set, ws_call.item[1]) = "closed"
    /\ \E item \in Items : ItemState(work_set, item) = "open"
    /\ \E item \in Items : ItemState(work_set, item) = "unknown"

\* the call just made is close(x)
CloseStep ==
    LET item == ws_call'.item[1]
        was == ItemState(work_set, item)
    IN  /\ ws_call'.ret = Some(was \in {"unknown", "open"})
        /\ ItemState(work_set', item) = "closed"
        /\ item \in IterKnown(work_set')
        /\ was = "closed" => ws_call'.ret = Some(FALSE) /\ work_set' = work_set
        /\ \A other \in Items \ {item} :
              ItemState(work_set', other) = ItemState(work_set, other)

\* C15: close(x) returns true exactly when x was unknown or open, after
\* which x is closed and known; on a closed x it returns false and leaves
\* the set unchanged; no other item changes state.
C15_Close == [][ws_call'.op = "close" => CloseStep]_vars

\* C15 witness: close has just returned true for an item that was unknown,
\* while another item is open.
C15_Witness ==
    /\ ws_call.op = "close"
    /\ ws_call.was = "unknown"
    /\ ws_call.ret = Some(TRUE)
    /\ ItemState(work_set, ws_call.item[1]) = "closed"
    /\ \E item \in Items : ItemState(work_set, item) = "open"

\* the items of the loop's universe
LoopItems == 0..(loop.modulus - 1)

RECURSIVE ReachableFrom(_)
\* the items reachable from the set S by the loop's successor function
ReachableFrom(S) ==
    LET more == S \cup UNION {LoopSuccessors(loop, item) : item \in S}
    IN  IF more = S THEN S ELSE ReachableFrom(more)

\* a measure that every step of the loop lowers: the items not yet closed,
\* then the steps left in the iteration
LoopVariant ==
    5 * Cardinality(LoopItems \ Closed(work_set))
        + (IF loop.style = "pop"
           THEN CASE loop_pc = "take" -> 1 [] loop_pc = "body" -> 4 [] OTHER -> 0
           ELSE CASE loop_pc = "take" -> 3 [] loop_pc = "body" -> 2
                  [] loop_pc = "close" -> 1 [] OTHER -> 0)

\* C16: the worklist loop (pop, or peek followed by close, then inserting
\* the item's successors) terminates over a finite universe for every order
\* in which open items are chosen, hands out each item at most once, and
\* ends with iter_known equal to the set of items reachable from the
\* initially inserted ones; with successor (i + 7) mod 10 from 1 that is
\* all of 0..9.
C16_WorklistLoop ==
    /\ [](\A item \in DOMAIN handed : handed[item] <= 1)
    /\ [](IterKnown(work_set) \subseteq ReachableFrom(loop.start))
    /\ [](loop_pc = "done" =>
            /\ work_set.open = {}
            /\ IterKnown(work_set) = ReachableFrom(loop.start)
            /\ DOMAIN handed = IterKnown(work_set))
    /\ [](loop_pc = "done" /\ loop.modulus = ExampleModulus =>
            IterKnown(work_set) = 0..(ExampleModulus - 1))
    /\ [](loop_pc # "done" => ENABLED NextLoop)
    /\ [][LoopVariant' < LoopVariant]_vars

\* C16 witness: the documented peek loop has ended with all of 0..9 known
\* and each handed out once.
C16_Witness ==
    /\ loop_pc = "done"
    /\ loop = Loop("peek", ExampleModulus, {ExampleStep}, {ExampleStart})
    /\ IterKnown(work_set) = 0..9
    /\ \A item \in 0..9 : handed[item] = 1

----------------------------------------------------------------------------
(* Context::map_leaves and the leaf functions it is called with            *)

\* what resolve_variables and map_leaves return: the Context, the ExprRef,
\* and whether the call returns at all
MapResult(c, ref, diverges) == [ctx |-> c, ref |-> ref, diverges |-> diverges]

RECURSIVE ResolveLoop(_, _, _)
\* resolve_variables: the loop; seen holds the values expr has had, so that
\* coming to one of them again is a loop that never ends
ResolveLoop(c, expr, seen) ==
    IF IsVariable(c, expr) /\ GetVariableAssignment(c, expr) # None
       /\ GetVariableAssignment(c, expr)[1] # expr
    THEN IF GetVariableAssignment(c, expr)[1] \in seen
         THEN MapResult(c, expr, TRUE)
         ELSE ResolveLoop(c, GetVariableAssignment(c, expr)[1],
                          seen \cup {GetVariableAssignment(c, expr)[1]})
    ELSE MapResult(c, expr, FALSE)

\* resolve_variables
ResolveVariables(c, expr) == ResolveLoop(c, expr, {expr})

\* the leaf function f applied to a leaf: the identity, or resolve_variables
ApplyLeaf(f, c, expr) ==
    IF f = "resolve_variables" THEN ResolveVariables(c, expr) ELSE MapResult(c, expr, FALSE)

\* map_leaves: the constructor each kind of node is rebuilt with
Rebuild(c, kind, exprs) ==
    CASE kind = "Read" -> ReadExpr(c, exprs[1])
      [] kind = "Phi" -> PhiExpr(c, exprs)
      [] kind = "Add" -> AddExpr(c, exprs)
      [] kind = "Mul" -> MulExpr(c, exprs)
      [] kind \in {"BitOr", "BitAnd"} -> BitExpr(c, kind, exprs)
      [] kind = "Not" -> ReadExpr(c, exprs[1])
      [] kind = "Equal" -> EqualExpr(c, exprs[1], exprs[2])
      [] kind \in {"LessSigned", "LessUnsigned"} -> LessExpr(c, kind, exprs[1], exprs[2])

\* the result of a rebuild, as map_leaves returns it
Rebuilt(r) == MapResult(r.ctx, r.ref, FALSE)

RECURSIVE MapLeaves(_, _, _, _)
RECURSIVE MapEach(_, _, _, _, _)
RECURSIVE MapRest(_, _, _, _, _)
\* map_leaves on every sub-expression in turn; mapped holds the results
MapEach(c, exprs, f, chain, mapped) ==
    IF exprs = <<>> THEN [ctx |-> c, refs |-> mapped, diverges |-> FALSE]
    ELSE MapRest(MapLeaves(c, Head(exprs), f, chain), Tail(exprs), f, chain, mapped)

\* the sub-expression was mapped to r; the rest follow
MapRest(r, exprs, f, chain, mapped) ==
    IF r.diverges THEN [ctx |-> r.ctx, refs |-> mapped, diverges |-> TRUE]
    ELSE MapEach(r.ctx, exprs, f, chain, Append(mapped, r.ref))

\* the sub-expressions were mapped to m; the node is rebuilt from them
RebuildFrom(m, kind) ==
    IF m.diverges THEN MapResult(m.ctx, 0, TRUE)
    ELSE Rebuilt(Rebuild(m.ctx, kind, m.refs))

\* map_leaves: second, recurse into the sub-expressions of the mapped leaf
\* and rebuild
MapInterior(r, f, chain) ==
    IF r.diverges THEN r
    ELSE IF GetExpr(r.ctx, r.ref).kind \in {"Literal", "Variable"} THEN r
    ELSE RebuildFrom(MapEach(r.ctx, GetExpr(r.ctx, r.ref).params, f, chain, <<>>),
                     GetExpr(r.ctx, r.ref).kind)

\* Context::map_leaves.  chain holds the expressions of the calls this call
\* is nested in: a call on one of them never returns, because what it does
\* on the way depends on nodes and assignments that never change
MapLeaves(c, expr, f, chain) ==
    IF expr \in chain THEN MapResult(c, expr, TRUE)
    ELSE MapInterior(
             IF GetExpr(c, expr).kind \in {"Literal", "Variable"}
             THEN ApplyLeaf(f, c, expr) ELSE MapResult(c, expr, FALSE),
             f, chain \cup {expr})

----------------------------------------------------------------------------
(* build_expressions: the first pass executes every basic block            *)
(* symbolically, the second works backward from the writes and the return  *)
(* values.  It runs on what analyze and build_basic_blocks leave.          *)

\* number of words of an image the expression passes run on
ExprWords == 3

\* the image is mapped from 0x80003000 upwards
ExprBase == U32(32768, 12288)

ExprAddrs == {WrappingAdd(ExprBase, U32(0, 4 * i)) : i \in 0..(ExprWords - 1)}

\* the words such an image is made of
ExprWordSet ==
    { U32(14435, 1),        \* 0x38630001  addi r3, r3, 1
      U32(15456, 0),        \* 0x3c600000  addis r3, 0, 0
      U32(32865, 8),        \* 0x80610008  lwz r3, 8(r1)
      U32(36961, 4),        \* 0x90610004  stw r3, 4(r1)
      U32(36961, 8),        \* 0x90610008  stw r3, 8(r1)
      U32(37921, 65520),    \* 0x9421fff0  stwu r1, -16(r1)
      U32(0, 0),            \* 0x00000000  unimplemented opcode 0
      U32(16770, 8),        \* 0x41820008  beq +8
      U32(16896, 65532),    \* 0x4200fffc  bdnz -4
      U32(20096, 32) }      \* 0x4e800020  blr

\* main: analyze, build_basic_blocks and build_expressions on an image
InitExpr ==
    /\ DbNew
    /\ HarnessIdle
    /\ LibNew
    /\ image \in [ExprAddrs -> ExprWordSet]
    /\ entry_point \in ExprAddrs
    /\ overflow_checks = FALSE
    /\ pc = "analyze"
    /\ addrs_to_scan = WorkSetNew
    /\ scan_addr = U32(0, 0)
    /\ fetched = EmptyMap
    /\ scan_starts = {}
    /\ blocks_to_scan = WorkSetNew
    /\ builders_by_addr = EmptyMap

\* a u32 cast to i32
AsI32(x) ==
    IF Hi(x) >= Half \div 2 THEN (Hi(x) - Half) * Half + Lo(x) ELSE Hi(x) * Half + Lo(x)

RECURSIVE VisitBlocks(_, _, _)
\* build_expressions: the basic blocks reachable from the entry point in
\* ascending order, or None when get_fact(..).unwrap() panics
VisitBlocks(d, addrs_to_visit, addrs) ==
    IF addrs_to_visit.open = {} THEN Some(SortedU32(addrs))
    ELSE LET basic_block_addr == MinU32(addrs_to_visit.open)
             fact == GetFact(d, "BasicBlock", basic_block_addr)
         IN  IF fact = None THEN None
             ELSE VisitBlocks(d,
                              WorkSetExtend(WorkSetPop(addrs_to_visit, basic_block_addr),
                                            fact[1].successors),
                              addrs \cup {basic_block_addr})

\* what the execution of a basic block returns: the machine state and the
\* writes of the block, or a panic
Executed(m, writes) == [m |-> m, writes |-> writes, panic |-> FALSE]

ExecutePanic(m) == [m |-> m, writes |-> <<>>, panic |-> TRUE]

RECURSIVE Execute(_, _, _, _)
\* first pass: the update r that prepare_update returned is applied, its
\* writes are recorded and the loop goes on
ApplyUpdate(r, writes, addr, end_addr) ==
    IF r.panic THEN ExecutePanic(r.m)
    ELSE IF Add4Overflows(addr)
    THEN Executed(Apply(r.m, r.update), writes \o r.update.writes)
    ELSE Execute(Apply(r.m, r.update), writes \o r.update.writes,
                 WrappingAdd(addr, Four), end_addr)

\* first pass: for addr in (basic_block_addr..end_addr).step_by(4)
Execute(m, writes, addr, end_addr) ==
    IF ~LessU32(addr, end_addr) THEN Executed(m, writes)
    ELSE IF ~Mapped(addr) THEN ExecutePanic(m)
    ELSE IF ~Decode(addr).ok THEN ExecutePanic(m)
    ELSE ApplyUpdate(PrepareUpdate(m, addr, Decode(addr).instruction),
                     writes, addr, end_addr)

\* Register derives Ord: by variant, then by number
RegisterKey(register) ==
    (CASE register[1] = "zero" -> 0 [] register[1] = "gpr" -> 1000
       [] register[1] = "spr" -> 2000 [] register[1] = "cr" -> 3000) + register[2]

RECURSIVE SortedRegisters(_)
SortedRegisters(S) ==
    IF S = {} THEN <<>>
    ELSE LET least == CHOOSE x \in S : \A y \in S : RegisterKey(x) <= RegisterKey(y)
         IN  <<least>> \o SortedRegisters(S \ {least})

Reverse(s) == [i \in 1..Len(s) |-> s[Len(s) + 1 - i]]

\* MachineState::iter_registers: a HashMap has no order; the ascending and
\* the descending order stand for the orders it can yield
IterRegisters(m) ==
    {SortedRegisters(DOMAIN m.registers), Reverse(SortedRegisters(DOMAIN m.registers))}

\* a recording that assigns the first register only
AssignLeaving_FirstOnly(c, m, registers_leaving) ==
    IF registers_leaving = <<>> THEN c
    ELSE LET register == Head(registers_leaving)
             variable == VariableExpr(c, RegisterLeaving(m.basic_block, register))
         IN  AssignVariable(variable.ctx, variable.ref, m.registers[register])

RECURSIVE AssignLeaving(_, _, _)
\* first pass: for (register, assignment) in registers_leaving
AssignLeaving(c, m, registers_leaving) ==
    IF registers_leaving = <<>> THEN c
    ELSE LET register == Head(registers_leaving)
             variable == VariableExpr(c, RegisterLeaving(m.basic_block, register))
         IN  AssignLeaving(AssignVariable(variable.ctx, variable.ref,
                                          m.registers[register]),
                           m, Tail(registers_leaving))

\* first pass: record register state on leaving
RecordLeaving(m, registers_leaving) ==
    AssignLeaving(VariableExpr(m.ctx, Garbage).ctx, m, registers_leaving)

RECURSIVE RecordWrites(_, _)
\* first pass: basic_block.record_write for every write of the block
RecordWrites(fact, writes) ==
    IF writes = <<>> THEN fact
    ELSE RecordWrites(RecordWrite(fact, Head(writes)), Tail(writes))

\* extract_base_offset: the Context and Some(<<base, offset>>) or None
ExtractBaseOffset(c, addr) ==
    LET node == GetExpr(c, addr)
    IN  CASE node.kind = "Literal" ->
                LET zero == LiteralExpr(c, U32(0, 0))
                IN  [ctx |-> zero.ctx, ret |-> Some(<<zero.ref, AsI32(node.literal)>>)]
          [] node.kind = "Variable" -> [ctx |-> c, ret |-> Some(<<addr, 0>>)]
          [] node.kind = "Add" ->
                LET registers == SelectSeq(node.params, LAMBDA expr : IsVariable(c, expr))
                    literals ==
                        SelectSeq(node.params,
                                  LAMBDA expr : GetExpr(c, expr).kind = "Literal")
                IN  IF Len(node.params) # 2 \/ Len(registers) # 1 \/ Len(literals) # 1
                    THEN [ctx |-> c, ret |-> None]
                    ELSE [ctx |-> c,
                          ret |-> Some(<<registers[1],
                                         AsI32(GetExpr(c, literals[1]).literal)>>)]
          [] OTHER -> [ctx |-> c, ret |-> None]

\* the seeding that roots a stack write as well
NotRooted_Never(c, stack_base, write) == FALSE

\* second pass: the write is a stack write that is not rooted
NotRooted(c, stack_base, write) ==
    LET r == ExtractBaseOffset(c, write.addr)
    IN  /\ r.ret # None
        /\ r.ret[1][1] = stack_base
        /\ (r.ret[1][2] = 4 \/ r.ret[1][2] < 0)

RECURSIVE RootWrites(_, _, _)
\* second pass: for write in basic_block.writes(); s is [ctx, exprs_to_visit]
RootWrites(s, stack_base, writes) ==
    IF writes = <<>> THEN s
    ELSE LET write == Head(writes)
             c == ExtractBaseOffset(s.ctx, write.addr).ctx
         IN  RootWrites(
                 IF NotRooted(s.ctx, stack_base, write)
                 THEN [s EXCEPT !.ctx = c]
                 ELSE [ctx |-> c,
                       exprs_to_visit |->
                           WorkSetInsert(WorkSetInsert(s.exprs_to_visit, write.addr),
                                         write.data)],
                 stack_base, Tail(writes))

RECURSIVE RootBlocks(_, _, _, _)
\* second pass: for basic_block_addr in basic_block_addrs
RootBlocks(s, d, stack_base, addrs) ==
    IF addrs = <<>> THEN s
    ELSE LET basic_block == GetFact(d, "BasicBlock", Head(addrs))[1]
             written == RootWrites(s, stack_base, basic_block.writes)
             variable == VariableExpr(written.ctx,
                                      RegisterLeaving(Head(addrs), GeneralPurpose(3)))
         IN  RootBlocks(
                 IF basic_block.successors = <<>>
                 THEN [ctx |-> variable.ctx,
                       exprs_to_visit |->
                           WorkSetInsert(written.exprs_to_visit, variable.ref)]
                 ELSE written,
                 d, stack_base, Tail(addrs))

\* second pass: the stack base
StackBase(c, entry) == VariableExpr(c, RegisterEntering(entry, GeneralPurpose(1)))

\* second pass: the roots, as [ctx, exprs_to_visit]
Roots(c, d, entry, addrs) ==
    LET stack_base == StackBase(c, entry)
    IN  RootBlocks([ctx |-> stack_base.ctx, exprs_to_visit |-> WorkSetNew],
                   d, stack_base.ref, addrs)

\* the RegisterLeaving variable of the first predecessor only
LeavingOf_FirstOnly(c, predecessors, register, params) ==
    LET variable == VariableExpr(c, RegisterLeaving(Head(predecessors), register))
    IN  [ctx |-> variable.ctx, params |-> <<variable.ref>>]

RECURSIVE LeavingOf(_, _, _, _)
\* second pass: the RegisterLeaving variable of every predecessor
LeavingOf(c, predecessors, register, params) ==
    IF predecessors = <<>> THEN [ctx |-> c, params |-> params]
    ELSE LET variable == VariableExpr(c, RegisterLeaving(Head(predecessors), register))
         IN  LeavingOf(variable.ctx, Tail(predecessors), register,
                       Append(params, variable.ref))

\* what an iteration of the second pass returns
Traced(c, ws) == [ctx |-> c, exprs_to_visit |-> ws, panic |-> FALSE]

\* second pass: the assignment is recorded and inserted
Assigned(c, ws, expr, assignment) ==
    Traced(AssignVariable(c, expr, assignment), WorkSetInsert(ws, assignment))

\* second pass: the phi assignment of a RegisterEntering variable
AssignPhi(c, ws, expr, predecessors, register) ==
    LET leaving == LeavingOf(c, predecessors, register, <<>>)
        assignment == PhiExpr(leaving.ctx, leaving.params)
    IN  Assigned(assignment.ctx, ws, expr, assignment.ref)

\* second pass: one iteration of the loop, with expr popped
Trace(c, d, ws, expr) ==
    LET node == GetExpr(c, expr)
        variable == node.variable
    IN  IF node.kind # "Variable" THEN Traced(c, WorkSetExtend(ws, GetExprLeaves(c, expr)))
        ELSE IF GetVariableAssignment(c, expr) # None
        THEN Traced(c, WorkSetInsert(ws, GetVariableAssignment(c, expr)[1]))
        ELSE CASE variable.kind = "RegisterEntering" ->
                    LET fact == GetFact(d, "BasicBlock", variable.addr)
                    IN  IF fact = None THEN [Traced(c, ws) EXCEPT !.panic = TRUE]
                        ELSE IF fact[1].predecessors # <<>>
                        THEN AssignPhi(c, ws, expr, fact[1].predecessors,
                                       variable.register)
                        ELSE Traced(c, ws)
               [] variable.kind = "RegisterLeaving" ->
                    LET assignment ==
                            VariableExpr(c, RegisterEntering(variable.addr,
                                                             variable.register))
                    IN  Assigned(assignment.ctx, ws, expr, assignment.ref)
               [] OTHER -> Traced(c, ws)

exprPcVars == <<harnessVars, ctx_call, wsVars, inputVars, scan_starts, addrs_to_scan, scan_addr,
                fetched, buildVars, machineVars>>

RECURSIVE ListingFails(_, _)
\* write_graphviz_basic_blocks: for addr in (addr..end_addr).step_by(4), the
\* read or the parse(addr).unwrap() panics on one of the words
ListingFails(addr, end_addr) ==
    IF ~LessU32(addr, end_addr) THEN FALSE
    ELSE IF ~Mapped(addr) THEN TRUE
    ELSE IF ~Decode(addr).ok THEN TRUE
    ELSE IF Add4Overflows(addr) THEN FALSE
    ELSE ListingFails(WrappingAdd(addr, Four), end_addr)

\* analyze: write_graphviz_basic_blocks lists the words of every basic block
WriteGraphviz ==
    /\ pc = "built"
    /\ pc' = IF \E addr \in IterFactsWithType(db, "BasicBlock") :
                    ListingFails(addr, GetFact(db, "BasicBlock", addr)[1].end_addr)
             THEN "graphviz_panic" ELSE "drawn"
    /\ UNCHANGED <<dbVars, exprPcVars, ctx, exprVars>>

\* build_expressions: collect the basic blocks
ExprStart ==
    /\ pc = "drawn"
    /\ LET addrs == VisitBlocks(db, WorkSetInsert(WorkSetNew, entry_point), {})
       IN  IF addrs = None
           THEN pc' = "expr_panic" /\ UNCHANGED basic_block_addrs
           ELSE pc' = "pass1" /\ basic_block_addrs' = addrs[1]
    /\ UNCHANGED <<dbVars, exprPcVars, ctx, blocks_done, next_variable_number,
                   exprs_to_visit, popped>>

\* the basic block the first pass executes next
ThisBlock == basic_block_addrs[blocks_done + 1]

\* the first pass executing the basic block
ExecuteBlock ==
    Execute(MachineStateNew(ctx, next_variable_number, ThisBlock), <<>>, ThisBlock,
            GetFact(db, "BasicBlock", ThisBlock)[1].end_addr)

\* first pass: a basic block is executed and its registers on leaving are
\* assigned
Pass1Block ==
    /\ pc = "pass1"
    /\ blocks_done < Len(basic_block_addrs)
    /\ \E r \in {ExecuteBlock} :
          /\ ~r.panic
          /\ \E registers_leaving \in IterRegisters(r.m) :
                ctx' = RecordLeaving(r.m, registers_leaving)
          /\ next_variable_number' = r.m.next_variable_number
          /\ SetDb(GetFactMut(db, "BasicBlock", ThisBlock,
                              RecordWrites(GetFact(db, "BasicBlock", ThisBlock)[1],
                                           r.writes)))
    /\ blocks_done' = blocks_done + 1
    /\ UNCHANGED <<exprPcVars, pc, basic_block_addrs, exprs_to_visit, popped>>

\* first pass: dol.read, parse(addr).unwrap() or prepare_update panics
Pass1Panic ==
    /\ pc = "pass1"
    /\ blocks_done < Len(basic_block_addrs)
    /\ ExecuteBlock.panic
    /\ pc' = "pass1_panic"
    /\ UNCHANGED <<dbVars, exprPcVars, ctx, exprVars>>

\* second pass: the writes and the return values are rooted
Root ==
    /\ pc = "pass1"
    /\ blocks_done = Len(basic_block_addrs)
    /\ \E s \in {Roots(ctx, db, entry_point, basic_block_addrs)} :
          ctx' = s.ctx /\ exprs_to_visit' = s.exprs_to_visit
    /\ pc' = "rooted"
    /\ UNCHANGED <<dbVars, exprPcVars, basic_block_addrs, blocks_done,
                   next_variable_number, popped>>

\* what exprs_to_visit.pop() can yield: a HashSet has no order; the least
\* and the greatest open ExprRef stand for the items its iterator can
\* yield first
PopExpr(ws) ==
    {expr \in ws.open : (\A other \in ws.open : expr <= other)
                           \/ (\A other \in ws.open : expr >= other)}

\* second pass: while let Some(expr) = exprs_to_visit.pop()
Pass2Step ==
    /\ pc \in {"rooted", "pass2"}
    /\ \E expr \in PopExpr(exprs_to_visit) :
          \E r \in {Trace(ctx, db, WorkSetPop(exprs_to_visit, expr), expr)} :
              /\ ctx' = r.ctx
              /\ exprs_to_visit' = r.exprs_to_visit
              /\ popped' = Some(expr)
              /\ pc' = IF r.panic THEN "pass2_panic" ELSE "pass2"
    /\ UNCHANGED <<dbVars, exprPcVars, basic_block_addrs, blocks_done,
                   next_variable_number>>

\* second pass: exprs_to_visit.pop() returns None
Pass2Done ==
    /\ pc \in {"rooted", "pass2"}
    /\ exprs_to_visit.open = {}
    /\ pc' = "traced"
    /\ UNCHANGED <<dbVars, exprPcVars, ctx, exprVars>>

\* what the third pass has come to: the Context, and whether a map_leaves
\* call never returns
Resolved(c, diverges) == [ctx |-> c, diverges |-> diverges]

RECURSIVE ResolveEach(_, _)
\* third pass: the expression was mapped to r; the rest follow
ResolveRest(r, exprs) ==
    IF r.diverges THEN Resolved(r.ctx, TRUE) ELSE ResolveEach(r.ctx, exprs)

\* third pass: ctx.map_leaves(expr, &resolve_variables) on each expression
ResolveEach(c, exprs) ==
    IF exprs = <<>> THEN Resolved(c, FALSE)
    ELSE ResolveRest(MapLeaves(c, Head(exprs), "resolve_variables", {}), Tail(exprs))

RECURSIVE WriteExprs(_)
\* third pass: the address and the data of every write, in order
WriteExprs(writes) ==
    IF writes = <<>> THEN <<>>
    ELSE <<Head(writes).addr, Head(writes).data>> \o WriteExprs(Tail(writes))

\* third pass: the return value of a basic block with no successors
ResolveReturn(r, basic_block_addr) ==
    IF r.diverges THEN r
    ELSE ResolveRest(
             MapResult(VariableExpr(r.ctx, RegisterLeaving(basic_block_addr,
                                                            GeneralPurpose(3))).ctx,
                       0, FALSE),
             <<VariableExpr(r.ctx, RegisterLeaving(basic_block_addr,
                                                   GeneralPurpose(3))).ref>>)

RECURSIVE ResolveBlocks(_, _, _)
\* third pass: the writes and the return value of the block were resolved
\* with r; the rest of the blocks follow
ResolveNext(r, d, addrs) ==
    IF r.diverges THEN r ELSE ResolveBlocks(r.ctx, d, addrs)

\* third pass: for basic_block_addr in basic_block_addrs
ResolveBlocks(c, d, addrs) ==
    IF addrs = <<>> THEN Resolved(c, FALSE)
    ELSE ResolveNext(
             IF GetFact(d, "BasicBlock", Head(addrs))[1].successors = <<>>
             THEN ResolveReturn(
                      ResolveEach(c, WriteExprs(GetFact(d, "BasicBlock",
                                                       Head(addrs))[1].writes)),
                      Head(addrs))
             ELSE ResolveEach(c, WriteExprs(GetFact(d, "BasicBlock",
                                                   Head(addrs))[1].writes)),
             d, Tail(addrs))

\* third pass: every write and every return value is resolved, unless a
\* map_leaves call recurses without end
Pass3 ==
    /\ pc = "traced"
    /\ \E r \in {ResolveBlocks(ctx, db, basic_block_addrs)} :
          IF r.diverges
          THEN pc' = "pass3_diverges" /\ UNCHANGED ctx
          ELSE pc' = "resolved" /\ ctx' = r.ctx
    /\ UNCHANGED <<dbVars, exprPcVars, exprVars>>

NextExpr ==
    \/ AnalyzeStart
    \/ Peek
    \/ ScanClosed
    \/ ScanUnmapped
    \/ ScanParseError
    \/ ScanInstruction
    \/ DiscoveryDone
    \/ BuildBlock
    \/ BuildFinish
    \/ WriteGraphviz
    \/ ExprStart
    \/ Pass1Block
    \/ Pass1Panic
    \/ Root
    \/ Pass2Step
    \/ Pass2Done
    \/ Pass3

SpecExpr == InitExpr /\ [][NextExpr]_vars

----------------------------------------------------------------------------
(* Claims about the expression passes                                      *)

\* the address lies in the basic block the first pass is executing
InThisBlock(a) ==
    /\ ~LessU32(a, ThisBlock)
    /\ LessU32(a, GetFact(db, "BasicBlock", ThisBlock)[1].end_addr)

\* the basic block the first pass is executing holds a word that is not
\* mapped or does not decode
NotAllDecoded ==
    \/ \E a \in DOMAIN image : InThisBlock(a) /\ ~Decode(a).ok
    \/ \E a \in DOMAIN image :
          ~Add4Overflows(a) /\ InThisBlock(WrappingAdd(a, Four))
              /\ ~Mapped(WrappingAdd(a, Four))

\* C17: prepare_update returns an Update, without panicking, for every
\* instruction the decoder produces from a word of the image, and so the
\* first pass panics on no basic block whose words all decode.
C17_PrepareUpdateTotal ==
    /\ \A a \in DOMAIN image :
          Decode(a).ok =>
              ~PrepareUpdate(MachineStateNew(ContextNew, 0, a), a,
                             Decode(a).instruction).panic
    /\ pc = "pass1_panic" => NotAllDecoded

\* what an expression refers to: its sub-expressions and, for an assigned
\* variable, its assignment
RefersTo(c, expr) ==
    Range(GetExprLeaves(c, expr))
        \cup (IF expr \in DOMAIN c.variable_assignments
              THEN {c.variable_assignments[expr]} ELSE {})

RECURSIVE Closure(_, _, _)
Closure(c, frontier, seen) ==
    IF frontier = {} THEN seen
    ELSE LET next == UNION {RefersTo(c, expr) : expr \in frontier} \ seen
         IN  Closure(c, next, seen \cup next)

\* everything reached from expr by following assignments and sub-expressions
ReachedFrom(c, expr) == Closure(c, RefersTo(c, expr), RefersTo(c, expr))

\* C18: after the first and the second pass no assigned variable is reached
\* from itself by following assignments and sub-expressions; in particular
\* no variable is assigned to itself.
C18_NoCycles ==
    pc = "traced" =>
        \A variable \in DOMAIN ctx.variable_assignments :
            variable \notin ReachedFrom(ctx, variable)

\* the writes the first pass recorded in the basic blocks it visited
VisitedWrites ==
    UNION {Range(GetFact(db, "BasicBlock", basic_block_addr)[1].writes) :
              basic_block_addr \in Range(basic_block_addrs)}

\* the variable RegisterEntering{entry point, r1} is interned as expr
IsStackBase(expr) ==
    GetExpr(ctx, expr) = ExprVariable(RegisterEntering(entry_point, GeneralPurpose(1)))

\* the u32 is 4, or negative as an i32
FourOrNegative(literal) == literal = U32(0, 4) \/ Hi(literal) >= Half \div 2

\* the address of the write is the sum of RegisterEntering{entry point, r1}
\* and a literal
OnStack(write) ==
    LET node == GetExpr(ctx, write.addr)
    IN  /\ node.kind = "Add"
        /\ Len(node.params) = 2
        /\ \E i \in 1..2 :
              /\ IsStackBase(node.params[i])
              /\ GetExpr(ctx, node.params[3 - i]).kind = "Literal"

\* the literal that is added to the stack base in the address of the write
StackOffset(write) ==
    LET node == GetExpr(ctx, write.addr)
    IN  IF IsStackBase(node.params[1])
        THEN GetExpr(ctx, node.params[2]).literal
        ELSE GetExpr(ctx, node.params[1]).literal

\* the write is one the claim excepts from rooting
FrameWrite(write) == OnStack(write) /\ FourOrNegative(StackOffset(write))

\* the return values: RegisterLeaving{B, r3} of every visited block B that
\* has no successors
ReturnValues ==
    {expr \in 0..(Len(ctx.exprs_by_index) - 1) :
        \E basic_block_addr \in Range(basic_block_addrs) :
            /\ GetFact(db, "BasicBlock", basic_block_addr)[1].successors = <<>>
            /\ GetExpr(ctx, expr) =
                   ExprVariable(RegisterLeaving(basic_block_addr, GeneralPurpose(3)))}

\* C19: when the second pass has seeded its worklist, the expressions in it
\* are the address and the data of every write of a visited block, except
\* the writes whose address is RegisterEntering{entry point, r1} plus an
\* offset that is 4 or negative, and the return values; every one of them
\* is open.  A write at any other offset from that base, at an offset from
\* another base, or at an address of another form, is rooted.
C19_RootSeeding ==
    pc = "rooted" =>
        /\ exprs_to_visit.known =
               UNION {{write.addr, write.data} :
                         write \in {w \in VisitedWrites : ~FrameWrite(w)}}
                   \cup ReturnValues
        /\ exprs_to_visit.open = exprs_to_visit.known

\* the worklist is seeded, a write to the frame was skipped and its address
\* is not among the roots, and a write at another offset from the stack
\* base was rooted
C19_Witness ==
    /\ pc = "rooted"
    /\ \E write \in VisitedWrites :
          FrameWrite(write) /\ write.addr \notin exprs_to_visit.known
    /\ \E write \in VisitedWrites :
          /\ OnStack(write) /\ ~FrameWrite(write)
          /\ write.addr \in exprs_to_visit.open

\* the expression is a RegisterEntering variable of the Context
IsEntering(c, expr) ==
    IsVariable(c, expr) /\ GetExpr(c, expr).variable.kind = "RegisterEntering"

\* the predecessors of the basic block a RegisterEntering variable names
PredecessorsOf(c, expr) ==
    GetFact(db, "BasicBlock", GetExpr(c, expr).variable.addr)[1].predecessors

\* in c, the variable is assigned a Phi of RegisterLeaving{P, R} for exactly
\* the predecessors P, stored in ascending order of index
PhiOfLeaving(c, expr, predecessors, register) ==
    /\ expr \in DOMAIN c.variable_assignments
    /\ LET phi == GetExpr(c, c.variable_assignments[expr])
       IN  /\ phi.kind = "Phi"
           /\ {GetExpr(c, param) : param \in Range(phi.params)} =
                  {ExprVariable(RegisterLeaving(predecessor, register)) :
                      predecessor \in Range(predecessors)}
           /\ Len(phi.params) = Cardinality(Range(predecessors))
           /\ \A i \in 1..(Len(phi.params) - 1) : phi.params[i] < phi.params[i + 1]

\* the second pass pops an unassigned RegisterEntering variable
PopsEntering ==
    /\ popped' # popped
    /\ IsEntering(ctx, popped'[1])
    /\ popped'[1] \notin DOMAIN ctx.variable_assignments

\* C20: when the second pass pops an unassigned RegisterEntering{B, R} and B
\* has predecessors, the variable is assigned a Phi whose operands are
\* exactly RegisterLeaving{P, R} for every predecessor P of B, sorted by
\* index, and the Phi is inserted into the worklist; when B has no
\* predecessors the variable stays unassigned.
C20_PhiAssignment ==
    [][PopsEntering =>
          IF PredecessorsOf(ctx, popped'[1]) # <<>>
          THEN /\ PhiOfLeaving(ctx', popped'[1], PredecessorsOf(ctx, popped'[1]),
                               GetExpr(ctx, popped'[1]).variable.register)
               /\ ctx'.variable_assignments[popped'[1]] \in exprs_to_visit'.known
               /\ ctx'.variable_assignments[popped'[1]] \notin exprs_to_visit.known
                      => ctx'.variable_assignments[popped'[1]] \in exprs_to_visit'.open
          ELSE popped'[1] \notin DOMAIN ctx'.variable_assignments]_vars

\* the second pass has ended; a RegisterEntering variable of a block with
\* two predecessors is assigned a Phi whose operands are not in the order of
\* the predecessors, and one of a block without predecessors was visited
\* and is unassigned
C20_Witness ==
    /\ pc = "traced"
    /\ \E expr \in DOMAIN ctx.variable_assignments :
          /\ IsEntering(ctx, expr)
          /\ Len(PredecessorsOf(ctx, expr)) = 2
          /\ LET phi == GetExpr(ctx, ctx.variable_assignments[expr])
             IN  /\ phi.kind = "Phi"
                 /\ Len(phi.params) = 2
                 /\ LessU32(GetExpr(ctx, phi.params[2]).variable.addr,
                            GetExpr(ctx, phi.params[1]).variable.addr)
    /\ \E expr \in exprs_to_visit.known :
          /\ IsEntering(ctx, expr)
          /\ PredecessorsOf(ctx, expr) = <<>>
          /\ expr \notin DOMAIN ctx.variable_assignments

----------------------------------------------------------------------------
(* Claims about the extent of the basic blocks                             *)

\* the last instruction of a block can be at x: x carries a BasicBlockEnd
\* fact or x + 4 carries a BranchTarget fact
EndsAt(x) ==
    \/ GetFact(db, "BasicBlockEnd", x) # None
    \/ GetFact(db, "BranchTarget", WrappingAdd(x, Four)) # None

\* the addresses at which facts can make a block end
EndCandidates ==
    DOMAIN facts_by_addr \cup {WrappingAdd(t, Minus4) : t \in DOMAIN facts_by_addr}

\* x is start, start + 4, ... and not above last
FromTo(start, x, last) ==
    /\ ~LessU32(x, start)
    /\ ~LessU32(last, x)
    /\ Lo(x) % 4 = Lo(start) % 4

\* the builder of the block at start ends where the claim says
EndsWhereClaimed(start) ==
    LET builder == builders_by_addr[start]
        end == builder.end_addr
        last == WrappingAdd(end, Minus4)
    IN  /\ FromTo(start, last, last)
        /\ EndsAt(last)
        /\ \A x \in EndCandidates : FromTo(start, x, last) /\ x # last => ~EndsAt(x)
        /\ LessU32(start, end)
        /\ Lo(end) % 4 = Lo(start) % 4
        /\ \A x \in DOMAIN facts_by_addr :
              FromTo(start, x, last) /\ x # last
                  => GetFact(db, "BasicBlockEnd", x) = None
        /\ Range(builder.successors) =
               IF GetFact(db, "BasicBlockEnd", last) # None
               THEN GetFact(db, "BasicBlockEnd", last)[1].successors
               ELSE {end}

Wrapped(start) == LessU32(WrappingAdd(builders_by_addr[start].end_addr, Minus4), start)

\* the builder of the block at start ends where the amended claim says
EndsWhereScanStops(start) ==
    LET builder == builders_by_addr[start]
        end == builder.end_addr
        last == WrappingAdd(end, Minus4)
    IN  /\ EndsAt(last)
        /\ Lo(end) % 4 = Lo(start) % 4
        /\ \A x \in EndCandidates :
              /\ Lo(x) % 4 = Lo(start) % 4
              /\ x # last
              /\ IF Wrapped(start)
                 THEN ~LessU32(x, start) \/ LessU32(x, last)
                 ELSE ~LessU32(x, start) /\ LessU32(x, last)
              => ~EndsAt(x)
        /\ ~Wrapped(start) /\ last # Minus4 => LessU32(start, end)
        /\ last = Minus4 => end = U32(0, 0)
        /\ overflow_checks => ~Wrapped(start) /\ last # Minus4
        /\ Range(builder.successors) =
               IF GetFact(db, "BasicBlockEnd", last) # None
               THEN GetFact(db, "BasicBlockEnd", last)[1].successors
               ELSE {end}

----------------------------------------------------------------------------
(* SpecMap: constructor calls and map_leaves calls on one Context          *)

\* the most nodes the constructor calls let the Context grow to
MapExprs == 3

\* one call of a constructor on the Context
MapConstruct ==
    \E op \in Constructors :
        \E call \in CallsOf(ctx, op) :
            \E r \in {Construct(ctx, call)} :
                /\ Len(r.ctx.exprs_by_index) <= MapExprs
                /\ ctx' = r.ctx
                /\ ctx_call' = [op |-> op, ref |-> r.ref, hit |-> r.ctx = ctx]
                /\ UNCHANGED <<dbVars, harnessVars, analyzeVars, wsVars, exprVars, machineVars>>

\* map_leaves(expr, f) with the identity as f, on any expression
MapLeavesIdentity ==
    \E expr \in Refs(ctx) :
        \E r \in {MapLeaves(ctx, expr, "identity", {})} :
            /\ ~r.diverges
            /\ ctx' = r.ctx
            /\ ctx_call' = [op |-> "map_leaves", ref |-> r.ref, hit |-> r.ctx = ctx,
                            expr |-> expr]
            /\ UNCHANGED <<dbVars, harnessVars, analyzeVars, wsVars, exprVars, machineVars>>

NextMap == MapConstruct \/ MapLeavesIdentity

SpecMap == InitCtx /\ [][NextMap]_vars

\* C22: map_leaves with the identity as its leaf function returns the
\* expression it was given, and interns no node.
C22_MapLeavesIdentity ==
    ctx_call.op = "map_leaves" => ctx_call.ref = ctx_call.expr /\ ctx_call.hit

----------------------------------------------------------------------------
(* SpecMachine: get_register calls and executed instructions on one        *)
(* MachineState                                                            *)

\* the most calls made on the MachineState
MachineCalls == 4

\* the registers that are read
MachineRegisters ==
    {Zero, GeneralPurpose(1), GeneralPurpose(3), GeneralPurpose(4), SpecialPurpose("ctr")}

\* the instructions that are executed
MachineWordSet ==
    { U32(14435, 1),        \* 0x38630001  addi r3, r3, 1
      U32(14464, 0),        \* 0x38800000  addi r4, 0, 0
      U32(32865, 8),        \* 0x80610008  lwz r3, 8(r1)
      U32(36961, 4),        \* 0x90610004  stw r3, 4(r1)
      U32(37921, 65520),    \* 0x9421fff0  stwu r1, -16(r1)
      U32(16896, 65532),    \* 0x4200fffc  bdnz -4
      U32(20096, 32) }      \* 0x4e800020  blr

InitMachine ==
    /\ DbNew /\ HarnessIdle /\ AnalyzeIdle /\ CtxNew /\ WsNew /\ ExprNew
    /\ machine \in {MachineStateNew(ContextNew, 0, basic_block) :
                        basic_block \in {ExprBase, WrappingAdd(ExprBase, Four)}}
    /\ machine_call = [op |-> "new", calls |-> 0]
    /\ machine_log = [applied |-> EmptyMap, read |-> EmptyMap]

\* the log after a read of the register
LogRead(log, register, ref) == [log EXCEPT !.read = MapInsert(@, register, ref)]

\* the log after an update was applied: the registers it sets hold its
\* values and have not been read since
LogApply(log, update) ==
    [applied |-> [register \in DOMAIN log.applied \cup DOMAIN update.registers |->
                    IF register \in DOMAIN update.registers
                    THEN update.registers[register] ELSE log.applied[register]],
     read |-> [register \in DOMAIN log.read \ DOMAIN update.registers |->
                    log.read[register]]]

\* machine_state.get_register(register)
MachineGetRegister ==
    /\ machine_call.calls < MachineCalls
    /\ \E register \in MachineRegisters :
        \E r \in {GetRegister(machine, register)} :
            /\ machine' = r.m
            /\ machine_call' = [op |-> "get_register", calls |-> machine_call.calls + 1,
                                register |-> register, ref |-> r.ref,
                                read_before |-> IF register \in DOMAIN machine_log.read
                                                THEN Some(machine_log.read[register])
                                                ELSE None]
            /\ machine_log' = LogRead(machine_log, register, r.ref)
    /\ UNCHANGED <<dbVars, harnessVars, analyzeVars, ctxVars, wsVars, exprVars>>

\* let update = machine_state.prepare_update(addr, &instruction);
\* machine_state.apply(update)
MachineExecute ==
    /\ machine_call.calls < MachineCalls
    /\ \E word \in MachineWordSet :
        \E r \in {PrepareUpdate(machine, machine.basic_block,
                                Parse(word, machine.basic_block).instruction)} :
            /\ ~r.panic
            /\ machine' = Apply(r.m, r.update)
            /\ machine_call' = [op |-> "apply", calls |-> machine_call.calls + 1,
                                update |-> r.update.registers]
            /\ machine_log' = LogApply(machine_log, r.update)
    /\ UNCHANGED <<dbVars, harnessVars, analyzeVars, ctxVars, wsVars, exprVars>>

NextMachine == MachineGetRegister \/ MachineExecute

SpecMachine == InitMachine /\ [][NextMachine]_vars

\* C23: get_register returns the literal 0 for the zero register, which the
\* state never stores; for any other register the value of the update applied
\* to it last, or RegisterEntering of this block and register when no update
\* set it; and the reference an earlier read returned when no update set the
\* register in between.
C23_GetRegister ==
    /\ Zero \notin DOMAIN machine.registers
    /\ machine_call.op = "get_register" =>
        LET register == machine_call.register
            ref == machine_call.ref
        IN  /\ register = Zero => GetExpr(machine.ctx, ref) = ExprLiteral(U32(0, 0))
            /\ register # Zero /\ register \in DOMAIN machine_log.applied =>
                    ref = machine_log.applied[register]
            /\ register # Zero /\ register \notin DOMAIN machine_log.applied =>
                    GetExpr(machine.ctx, ref) =
                        ExprVariable(RegisterEntering(machine.basic_block, register))
            /\ machine_call.read_before # None => ref = machine_call.read_before[1]

\* a register is read twice after an update set it, and another register is
\* read that no update set
C23_Witness ==
    /\ machine_call.op = "get_register"
    /\ machine_call.register \in DOMAIN machine_log.applied
    /\ machine_call.read_before # None
    /\ \E register \in DOMAIN machine_log.read : register \notin DOMAIN machine_log.applied

----------------------------------------------------------------------------
(* Claims about the registers on leaving a basic block                     *)

RECURSIVE WrittenFrom(_, _, _)
\* the registers the update r sets and those the rest of the block sets
WrittenAfter(r, addr, end_addr) ==
    DOMAIN r.update.registers
        \cup (IF Add4Overflows(addr) THEN {}
              ELSE WrittenFrom(Apply(r.m, r.update), WrappingAdd(addr, Four), end_addr))

\* the registers that the updates of the instructions in [addr, end_addr) set
WrittenFrom(m, addr, end_addr) ==
    IF ~LessU32(addr, end_addr) THEN {}
    ELSE WrittenAfter(PrepareUpdate(m, addr, Decode(addr).instruction), addr, end_addr)

\* the registers written by the instructions of the basic block the first
\* pass executes next
WrittenRegisters ==
    WrittenFrom(MachineStateNew(ctx, next_variable_number, ThisBlock), ThisBlock,
                GetFact(db, "BasicBlock", ThisBlock)[1].end_addr)

\* the registers r whose RegisterLeaving{block, r} has an assignment
LeavingAssigned(c, block) ==
    {GetExpr(c, v).variable.register :
        v \in {v \in DOMAIN c.variable_assignments :
                    /\ GetExpr(c, v).variable.kind = "RegisterLeaving"
                    /\ GetExpr(c, v).variable.addr = block}}

\* RegisterLeaving{block, register} is assigned the expression
LeavingBound(c, block, register, expr) ==
    /\ ExprVariable(RegisterLeaving(block, register)) \in DOMAIN c.indices_by_expr
    /\ GetVariableAssignment(
            c, c.indices_by_expr[ExprVariable(RegisterLeaving(block, register))])
        = Some(expr)

\* the first pass finishes a basic block in this step
Pass1Finishes == blocks_done' = blocks_done + 1

\* C24 as stated: when the first pass finishes a block, the registers whose
\* RegisterLeaving has an assignment are exactly the registers the block's
\* instructions wrote, each bound to the register's final expression.
C24_Original ==
    [][Pass1Finishes =>
        /\ LeavingAssigned(ctx', ThisBlock) = WrittenRegisters
        /\ \A register \in WrittenRegisters :
                LeavingBound(ctx', ThisBlock, register, ExecuteBlock.m.registers[register])
      ]_vars

\* C24: when the first pass finishes a block, the registers whose
\* RegisterLeaving has an assignment are exactly the registers in the machine
\* state, which are the registers the block's instructions wrote or read;
\* each is bound to the register's final expression, which for a register
\* that was read and not written is RegisterEntering of the block and
\* register.
C24_LeavingAssigned ==
    [][Pass1Finishes =>
        /\ LeavingAssigned(ctx', ThisBlock) = DOMAIN ExecuteBlock.m.registers
        /\ WrittenRegisters \subseteq LeavingAssigned(ctx', ThisBlock)
        /\ \A register \in DOMAIN ExecuteBlock.m.registers :
            /\ LeavingBound(ctx', ThisBlock, register, ExecuteBlock.m.registers[register])
            /\ register \notin WrittenRegisters =>
                    GetExpr(ctx', ExecuteBlock.m.registers[register]) =
                        ExprVariable(RegisterEntering(ThisBlock, register))
      ]_vars

\* the first pass has finished a block that wrote one register and read
\* another without writing it
C24_Witness ==
    \E i \in 1..blocks_done :
        \E written, read \in LeavingAssigned(ctx, basic_block_addrs[i]) :
            LET bound(register) ==
                    GetExpr(ctx, GetVariableAssignment(
                        ctx, ctx.indices_by_expr[
                            ExprVariable(RegisterLeaving(basic_block_addrs[i], register))])[1])
            IN  /\ bound(read) = ExprVariable(RegisterEntering(basic_block_addrs[i], read))
                /\ bound(written).kind # "Variable"

----------------------------------------------------------------------------
(* Claims about the end of the second pass                                 *)

\* the expressions that exprs_to_visit has handed out
Pass2Closed(ws) == ws.known \ ws.open

\* the expression is a RegisterEntering or a RegisterLeaving variable
IsRegisterVariable(c, expr) ==
    IsVariable(c, expr)
        /\ GetExpr(c, expr).variable.kind \in {"RegisterEntering", "RegisterLeaving"}

\* the block addresses and the registers that a variable of the second pass
\* can name
TraceAddrs ==
    Blocks \cup {GetExpr(ctx, expr).variable.addr :
                    expr \in {x \in Refs(ctx) : IsRegisterVariable(ctx, x)}}

TraceRegisters ==
    {GetExpr(ctx, expr).variable.register :
        expr \in {x \in Refs(ctx) : IsRegisterVariable(ctx, x)}}

\* the nodes that the second pass does not make
OtherNodes ==
    {expr \in Refs(ctx) : ~IsRegisterVariable(ctx, expr) /\ GetExpr(ctx, expr).kind # "Phi"}

\* an upper bound on the iterations the second pass has left: every node that
\* can exist (an entering variable, a leaving variable and a Phi per block
\* and register, and the other nodes) is handed out once
Pass2Variant ==
    Cardinality(OtherNodes) + 3 * Cardinality(TraceAddrs) * Cardinality(TraceRegisters)
        - Cardinality(Pass2Closed(exprs_to_visit))

\* the second pass runs one iteration of its loop in this step
Pass2Iterates == pc \in {"rooted", "pass2"} /\ pc' \in {"pass2", "pass2_panic"}

\* every assignment the table holds is still there after the step
AssignmentsKept ==
    \A variable \in DOMAIN ctx.variable_assignments :
        /\ variable \in DOMAIN ctx'.variable_assignments
        /\ ctx'.variable_assignments[variable] = ctx.variable_assignments[variable]

\* C25: the second pass terminates: every iteration hands out an expression
\* that was never handed out before and lowers a non-negative bound on the
\* iterations left; and no step of the first or the second pass replaces an
\* assignment, the first pass giving each register of a block and each
\* numbered variable one.
C25_Pass2Terminates ==
    [][/\ pc' \in {"pass1", "rooted", "pass2", "pass2_panic", "traced"} => AssignmentsKept
       /\ Pass1Finishes =>
            /\ LeavingAssigned(ctx, ThisBlock) = {}
            /\ Cardinality(DOMAIN ctx'.variable_assignments) =
                    Cardinality(DOMAIN ctx.variable_assignments)
                        + Cardinality(DOMAIN ExecuteBlock.m.registers)
                        + (next_variable_number' - next_variable_number)
       /\ Pass2Iterates =>
            /\ popped'[1] \in exprs_to_visit.open
            /\ Pass2Closed(exprs_to_visit') = Pass2Closed(exprs_to_visit) \cup {popped'[1]}
            /\ Pass2Variant' < Pass2Variant
            /\ Pass2Variant' >= 0
      ]_vars

\* the second pass has ended on a control-flow graph with a loop, having
\* assigned a variable
C25_Witness ==
    /\ pc = "traced"
    /\ \E a \in Blocks : a \in Successors(a)
    /\ \E expr \in DOMAIN ctx.variable_assignments : IsEntering(ctx, expr)

----------------------------------------------------------------------------
(* Claims about the order of fact insertions and scans                     *)

\* the facts keyed at the address that discovery inserts for a scan start:
\* the BranchTarget fact with its sources and the Subroutine marker
KeyedFacts(d, a) == <<GetFact(d, "BranchTarget", a), GetFact(d, "Subroutine", a)>>

\* the address carries the fact that queued it: the Subroutine marker of the
\* entry point, or a BranchTarget fact with a source
Queued(d, a) ==
    IF a = entry_point
    THEN GetFact(d, "Subroutine", a) # None
    ELSE /\ GetFact(d, "BranchTarget", a) # None
         /\ GetFact(d, "BranchTarget", a)[1].sources # {}

\* C26 as stated: every insertion of a BranchTarget source or a Subroutine
\* marker at an address comes before any scan that starts from the address,
\* so no step changes these facts at an address a scan has started from.
C26_Original ==
    [][\A a \in scan_starts : KeyedFacts(db', a) = KeyedFacts(db, a)]_vars

\* C26: when a scan starts from an address, the fact that queued the address
\* is already in the database; facts inserted at the address after that are
\* BranchTarget sources and the Subroutine marker of branches decoded later.
C26_QueuedBeforeScan ==
    [][/\ \A a \in scan_starts' \ scan_starts : Queued(db, a)
       /\ \A a \in scan_starts :
            /\ Queued(db', a)
            /\ KeyedFacts(db', a) # KeyedFacts(db, a) =>
                    /\ pc = "scan" /\ Mapped(scan_addr) /\ Decode(scan_addr).ok
                    /\ BranchInfo(Decode(scan_addr).instruction) # None
                    /\ BranchInfo(Decode(scan_addr).instruction)[1].target = Some(a)
      ]_vars

\* a scan has started from a branch target that is not the entry point, and
\* a branch decoded after the scan from the entry point started has added a
\* source there
C26_Witness ==
    /\ \E a \in scan_starts : a # entry_point /\ a \in DOMAIN fetched
    /\ GetFact(db, "BranchTarget", entry_point) # None

----------------------------------------------------------------------------
(* SpecBranch: discovery on an image of one branch instruction             *)

\* the number of offsets a branch word is built with, per form
BranchOffsets == 6

\* the addresses the branch is placed at
BranchAddrs == {U32(0, 0), U32(0, 4), U32(32768, 12288), U32(65535, 65532)}

\* offset fields of a B, as <<bits 6..15, bits 16..29 with two zero bits>>
LargeFields ==
    <<<<0, 0>>, <<0, 8>>, <<0, 65532>>, <<511, 65532>>, <<512, 0>>, <<1023, 65532>>,
      <<1, 0>>, <<1023, 32768>>>>

\* offset fields of a Bc: bits 16..29 with two zero bits
SmallFields == <<0, 8, 32764, 32768, 65532, 65528, 4, 16384>>

\* the words of B with the offset field, the absolute flag and the link flag
LargeWords ==
    {U32(18 * 1024 + LargeFields[i][1], LargeFields[i][2] + 2 * aa + lk) :
        i \in 1..BranchOffsets, aa \in {0, 1}, lk \in {0, 1}}

\* the words of Bc (bdnz and beq) with the offset field and the two flags
SmallWords ==
    {U32(16 * 1024 + bo_bi, SmallFields[i] + 2 * aa + lk) :
        bo_bi \in {16 * 32, 12 * 32 + 2}, i \in 1..BranchOffsets, aa \in {0, 1}, lk \in {0, 1}}

InitBranch ==
    /\ DbNew
    /\ HarnessIdle
    /\ LibNew
    /\ entry_point \in BranchAddrs
    /\ image \in {MapInsert(EmptyMap, entry_point, w) : w \in LargeWords \cup SmallWords}
    /\ overflow_checks \in BOOLEAN
    /\ pc = "analyze"
    /\ addrs_to_scan = WorkSetNew
    /\ scan_addr = U32(0, 0)
    /\ fetched = EmptyMap
    /\ scan_starts = {}
    /\ blocks_to_scan = WorkSetNew
    /\ builders_by_addr = EmptyMap

\* the image holds one word: no scan runs into an address that is closed
NextBranch ==
    \/ AnalyzeStart
    \/ Peek
    \/ ScanUnmapped
    \/ ScanInstruction
    \/ DiscoveryDone

SpecBranch == InitBranch /\ [][NextBranch]_vars

\* the offset field of the word as a number: the low 26 bits of a B, the low
\* 16 bits of a Bc, with the low two bits cleared
OffsetField(w, width) ==
    LET field == IF width = 26 THEN (Hi(w) % 1024) * Half + Lo(w) ELSE Lo(w)
    IN  field - (field % 4)

\* the field sign-extended from the width
SignExtended(field, width) ==
    IF field >= 2^(width - 1) THEN field - 2^width ELSE field

\* (base + offset) mod 2^32 for a signed offset
AddModulo(base, offset) ==
    LET lo == Lo(base) + (offset % Half)
    IN  U32((Hi(base) + (offset \div Half) + (lo \div Half)) % Half, lo % Half)

\* the target the claim gives for the branch word at the address
ClaimedTarget(w, a) ==
    AddModulo(IF (Lo(w) \div 2) % 2 = 1 THEN U32(0, 0) ELSE a,
              SignExtended(OffsetField(w, IF Opcode(w) = 18 THEN 26 ELSE 16),
                           IF Opcode(w) = 18 THEN 26 ELSE 16))

\* C27: a decoded B or Bc at address a has the target (base + offset) mod
\* 2^32, with base 0 when the absolute flag is set and a otherwise and offset
\* the offset field with its low two bits cleared, sign-extended from 26 bits
\* (B) or 16 bits (Bc); discovery records the branch as a source there.
C27_BranchTarget ==
    \A a \in DOMAIN fetched :
        Decode(a).ok /\ Decode(a).instruction.op \in {"B", "Bc"} =>
            /\ Decode(a).instruction.target = ClaimedTarget(image[a], a)
            /\ GetFact(db, "BranchTarget", ClaimedTarget(image[a], a)) # None
            /\ a \in GetFact(db, "BranchTarget", ClaimedTarget(image[a], a))[1].sources

\* a relative Bc with a negative offset at address 0 was decoded: the target
\* wraps below zero
C27_Witness ==
    \E a \in DOMAIN fetched :
        /\ a = U32(0, 0)
        /\ Decode(a).ok /\ Decode(a).instruction.op = "Bc"
        /\ ~AbsoluteAddress(image[a])
        /\ Lo(image[a]) >= 32768
        /\ Hi(Decode(a).instruction.target) = 65535

----------------------------------------------------------------------------
(* Claims about the words of a basic block                                 *)

\* the address lies in [start, end) of the basic block recorded at start
InBlock(start, a) ==
    /\ ~LessU32(a, start)
    /\ LessU32(a, GetFact(db, "BasicBlock", start)[1].end_addr)
    /\ Lo(a) % 4 = Lo(start) % 4

\* the addresses of the image and the address after each: a block that
\* leaves the image holds one of the latter
BlockAddrs == DOMAIN image \cup {WrappingAdd(a, Four) : a \in DOMAIN image}

\* C28: every address of every recorded basic block was scanned by discovery
\* and decodes, so neither the Graphviz listing nor the first pass fails on
\* the read or the parse(addr).unwrap() of a block's word.
C28_BlocksDecoded ==
    /\ \A start \in Blocks : \A a \in BlockAddrs :
            InBlock(start, a) => Fetched(a) /\ Mapped(a) /\ Decode(a).ok
    /\ pc # "graphviz_panic"
    /\ pc = "pass1_panic" => ~NotAllDecoded

\* the end address of the basic block recorded at start
EndOf(start) == GetFact(db, "BasicBlock", start)[1].end_addr

\* C29: the address ranges [A, E) of two distinct recorded basic blocks have
\* no address in common.
C29_BlocksDisjoint ==
    \A a \in Blocks : \A b \in Blocks :
        a # b => ~(LessU32(a, EndOf(b)) /\ LessU32(b, EndOf(a)))

----------------------------------------------------------------------------
(* Claims about the third pass                                             *)

\* where resolve_variables may stop: at an expression that is not a
\* variable, at a variable with no assignment, or at one assigned to itself
StopsResolving(c, expr) ==
    \/ ~IsVariable(c, expr)
    \/ GetVariableAssignment(c, expr) = None
    \/ GetVariableAssignment(c, expr) = Some(expr)

\* C30: the third pass terminates on every control-flow graph: no
\* map_leaves call with resolve_variables recurses without end, and
\* resolve_variables returns, from every expression, one at which it may
\* stop.
C30_Pass3Terminates ==
    /\ pc # "pass3_diverges"
    /\ pc \in {"traced", "resolved"} =>
        \A expr \in Refs(ctx) :
            /\ ~ResolveVariables(ctx, expr).diverges
            /\ StopsResolving(ctx, ResolveVariables(ctx, expr).ref)

====
